---- MODULE Spec2Model ----
(***************************************************************************)
(* The multi-kind watch engine of go-k8s-watcher (package watcher): the    *)
(* supervisor K8sWatcher (Start, Stop, IsWatching), the stop-forwarding    *)
(* task of Start, one watch loop per resolved kind (startResourceWatcher)  *)
(* and the event normalizer (handleEvent).                                 *)
(*                                                                         *)
(* Go strings whose characters matter (kinds, api versions, names) are     *)
(* sequences of one-character strings; opaque strings (version tokens,     *)
(* error texts) are TLA+ strings.                                          *)
(***************************************************************************)
EXTENDS Integers, Sequences, FiniteSets, TLC

\* Number of Start()/Stop() calls the clients make on the one supervisor.
MaxCalls == 3

\* Number of raw events the cluster sends to one watch loop.
MaxEvents == 2

\* Longest list of resources the catalog advertises for the core group.
MaxCatalog == 3

\* Most calls made on the store.
MaxOps == 3

\* The retry ceiling compared with `retries` in startResourceWatcher.
MaxRetries == 5

\* Seconds of backoff per counted retry: time.Duration(2*retries) * time.Second.
BackoffFactor == 2

Calls == 1..MaxCalls

(***************************************************************************)
(* Kind/Resource mapper (helpers of package watcher).                      *)
(***************************************************************************)
Upper == <<"A","B","C","D","E","F","G","H","I","J","K","L","M",
           "N","O","P","Q","R","S","T","U","V","W","X","Y","Z">>

Lower == <<"a","b","c","d","e","f","g","h","i","j","k","l","m",
           "n","o","p","q","r","s","t","u","v","w","x","y","z">>

\* strings.ToLower on one character.
ToLowerChar(ch) ==
    IF \E i \in 1..Len(Upper) : Upper[i] = ch
    THEN Lower[CHOOSE i \in 1..Len(Upper) : Upper[i] = ch]
    ELSE ch

toLowerCamelCase(s) ==
    IF Len(s) = 0 THEN s
    ELSE <<ToLowerChar(s[1])>> \o SubSeq(s, 2, Len(s))

kindToResource ==
    <<<<<<"P","o","d">>,
         <<"p","o","d","s">>>>,
      <<<<"D","e","p","l","o","y","m","e","n","t">>,
         <<"d","e","p","l","o","y","m","e","n","t","s">>>>,
      <<<<"S","e","r","v","i","c","e">>,
         <<"s","e","r","v","i","c","e","s">>>>,
      <<<<"C","o","n","f","i","g","M","a","p">>,
         <<"c","o","n","f","i","g","m","a","p","s">>>>,
      <<<<"S","e","c","r","e","t">>,
         <<"s","e","c","r","e","t","s">>>>,
      <<<<"N","a","m","e","s","p","a","c","e">>,
         <<"n","a","m","e","s","p","a","c","e","s">>>>,
      <<<<"N","o","d","e">>,
         <<"n","o","d","e","s">>>>,
      <<<<"P","e","r","s","i","s","t","e","n","t","V","o","l","u","m","e">>,
         <<"p","e","r","s","i","s","t","e","n","t","v","o","l","u","m","e","s">>>>,
      <<<<"P","e","r","s","i","s","t","e","n","t","V","o","l","u","m","e","C","l","a","i","m">>,
         <<"p","e","r","s","i","s","t","e","n","t","v","o","l","u","m","e","c","l","a","i","m","s">>>>,
      <<<<"I","n","g","r","e","s","s">>,
         <<"i","n","g","r","e","s","s","e","s">>>>,
      <<<<"J","o","b">>,
         <<"j","o","b","s">>>>,
      <<<<"C","r","o","n","J","o","b">>,
         <<"c","r","o","n","j","o","b","s">>>>,
      <<<<"S","t","a","t","e","f","u","l","S","e","t">>,
         <<"s","t","a","t","e","f","u","l","s","e","t","s">>>>,
      <<<<"D","a","e","m","o","n","S","e","t">>,
         <<"d","a","e","m","o","n","s","e","t","s">>>>,
      <<<<"S","e","r","v","i","c","e","A","c","c","o","u","n","t">>,
         <<"s","e","r","v","i","c","e","a","c","c","o","u","n","t","s">>>>,
      <<<<"R","o","l","e">>,
         <<"r","o","l","e","s">>>>,
      <<<<"R","o","l","e","B","i","n","d","i","n","g">>,
         <<"r","o","l","e","b","i","n","d","i","n","g","s">>>>,
      <<<<"C","l","u","s","t","e","r","R","o","l","e">>,
         <<"c","l","u","s","t","e","r","r","o","l","e","s">>>>,
      <<<<"C","l","u","s","t","e","r","R","o","l","e","B","i","n","d","i","n","g">>,
         <<"c","l","u","s","t","e","r","r","o","l","e","b","i","n","d","i","n","g","s">>>>,
      <<<<"C","u","s","t","o","m","R","e","s","o","u","r","c","e","D","e","f","i","n","i","t","i","o","n">>,
         <<"c","u","s","t","o","m","r","e","s","o","u","r","c","e","d","e","f","i","n","i","t","i","o","n","s">>>>>>

\* getResourceNameFromKind without its table: the guess for every kind.
getResourceNameGuessed(kind) ==
    toLowerCamelCase(kind) \o <<"s">>

getResourceNameFromKind(kind) ==
    IF \E i \in 1..Len(kindToResource) : kindToResource[i][1] = kind
    THEN kindToResource[CHOOSE i \in 1..Len(kindToResource) :
                            kindToResource[i][1] = kind][2]
    ELSE toLowerCamelCase(kind) \o <<"s">>

\* strings.Index(s, "/"), 0-based, -1 when there is none.
IndexSlash(s) ==
    IF \E i \in 1..Len(s) : s[i] = "/"
    THEN (CHOOSE i \in 1..Len(s) :
              s[i] = "/" /\ \A j \in 1..(i - 1) : s[j] # "/") - 1
    ELSE -1

\* strings.LastIndex(s, "/"), 0-based, -1 when there is none.
LastIndexSlash(s) ==
    IF \E i \in 1..Len(s) : s[i] = "/"
    THEN (CHOOSE i \in 1..Len(s) :
              s[i] = "/" /\ \A j \in (i + 1)..Len(s) : s[j] # "/") - 1
    ELSE -1

\* SplitAPIVersion that cuts at the last "/".
SplitAPIVersionAtLast(apiVersion) ==
    IF apiVersion = <<"v","1">> THEN << <<>>, apiVersion >>
    ELSE IF LastIndexSlash(apiVersion) # -1
         THEN << SubSeq(apiVersion, 1, LastIndexSlash(apiVersion)),
                 SubSeq(apiVersion, LastIndexSlash(apiVersion) + 2,
                        Len(apiVersion)) >>
         ELSE << <<>>, apiVersion >>

\* Returns <<group, version>>.
SplitAPIVersion(apiVersion) ==
    IF apiVersion = <<"v","1">> THEN << <<>>, apiVersion >>
    ELSE IF IndexSlash(apiVersion) # -1
         THEN << SubSeq(apiVersion, 1, IndexSlash(apiVersion)),
                 SubSeq(apiVersion, IndexSlash(apiVersion) + 2, Len(apiVersion)) >>
         ELSE << <<>>, apiVersion >>

\* contains that finds every string.
containsAnything(slice, s) ==
    TRUE

contains(slice, s) ==
    \E i \in 1..Len(slice) : slice[i] = s

\* strings.Contains(s, "/").
ContainsSlash(s) ==
    \E i \in 1..Len(s) : s[i] = "/"

(***************************************************************************)
(* Types of package watcher.                                               *)
(***************************************************************************)
ResourceToWatch(kind, apiVersion, namespaced) ==
    [Kind |-> kind, APIVersion |-> apiVersion, Namespaced |-> namespaced]

V1 == <<"v","1">>

AppsV1 == <<"a","p","p","s","/","v","1">>

DefaultResourceTypes ==
    << ResourceToWatch(<<"P","o","d">>, V1, TRUE),
       ResourceToWatch(<<"D","e","p","l","o","y","m","e","n","t">>, AppsV1, TRUE),
       ResourceToWatch(<<"S","e","r","v","i","c","e">>, V1, TRUE),
       ResourceToWatch(<<"C","o","n","f","i","g","M","a","p">>, V1, TRUE),
       ResourceToWatch(<<"N","a","m","e","s","p","a","c","e">>, V1, FALSE) >>

Widget == ResourceToWatch(<<"W","i","d","g","e","t">>,
                          <<"e","x","/","v","1">>, TRUE)

\* The Options the clients construct the supervisor with.
OptionSet ==
    [ Namespace : { <<>>, <<"n">> },
      ResourceTypes : { <<>>, <<DefaultResourceTypes[1]>>,
                        <<DefaultResourceTypes[1], Widget>> },
      WatchAll : BOOLEAN ]

(***************************************************************************)
(* The cluster: what discovery answers, and the raw events of a watch.     *)
(***************************************************************************)
APIResource(name, kind, namespaced, verbs) ==
    [Name |-> name, Kind |-> kind, Namespaced |-> namespaced, Verbs |-> verbs]

CoreList ==
    [ GroupVersion |-> V1,
      APIResources |->
        << APIResource(<<"p","o","d","s">>, <<"P","o","d">>, TRUE,
                       <<"get", "list", "watch">>),
           APIResource(<<"p","o","d","s","/","l","o","g">>, <<"P","o","d">>, TRUE,
                       <<"get", "watch">>),
           APIResource(<<"p","o","d","s">>, <<"P","o","d">>, TRUE,
                       <<"get", "list", "watch">>),
           APIResource(<<"b","i","n","d","i","n","g","s">>,
                       <<"B","i","n","d","i","n","g">>, TRUE, <<"create">>) >> ]

AppsList ==
    [ GroupVersion |-> AppsV1,
      APIResources |->
        << APIResource(<<"d","e","p","l","o","y","m","e","n","t","s">>,
                       <<"D","e","p","l","o","y","m","e","n","t">>, TRUE,
                       <<"list", "watch">>) >> ]

\* The resources a catalog may advertise for the core group: watchable and
\* not, a subresource, and a second resource of the kind Pod.
CatalogResources ==
    { APIResource(<<"p","o","d","s">>, <<"P","o","d">>, TRUE,
                  <<"get", "list", "watch">>),
      APIResource(<<"p","o","d","s","/","l","o","g">>, <<"P","o","d">>, TRUE,
                  <<"get", "watch">>),
      APIResource(<<"p","o","d","z">>, <<"P","o","d">>, TRUE,
                  <<"watch">>),
      APIResource(<<"b","i","n","d","i","n","g","s">>,
                  <<"B","i","n","d","i","n","g">>, TRUE, <<"create">>) }

SeqsUpTo(S, n) ==
    UNION { [1..k -> S] : k \in 0..n }

CoreLists ==
    { [GroupVersion |-> V1, APIResources |-> s] :
        s \in SeqsUpTo(CatalogResources, MaxCatalog) } \cup {CoreList}

\* Answers of ServerGroupsAndResources: every group listed; one group
\* unreachable (ErrGroupDiscoveryFailed, the lists of the others returned);
\* the catalog unreachable as a whole.
DiscoveryAnswers ==
    { [lists |-> <<c, AppsList>>, err |-> "none"] : c \in CoreLists }
    \cup { [lists |-> <<c>>, err |-> "group discovery failed"] :
               c \in CoreLists }
    \cup { [lists |-> <<>>, err |-> "failed"] }

\* No answer: discovery was not called.
NoAnswer == [lists |-> <<>>, err |-> "not called"]

\* IsGroupDiscoveryFailedError that recognises no error.
IsGroupDiscoveryFailedNever(err) ==
    FALSE

IsGroupDiscoveryFailedError(err) ==
    err = "group discovery failed"

RECURSIVE processResources(_, _, _, _, _)
\* The two nested range loops of discoverAllResources, from resource j of
\* list i on, with the resources and processedResources built so far.
processResources(lists, i, j, processedResources, resources) ==
    IF i > Len(lists) THEN resources
    ELSE IF j > Len(lists[i].APIResources)
    THEN processResources(lists, i + 1, 1, processedResources, resources)
    ELSE LET resList == lists[i]
             r == resList.APIResources[j]
             resourceKey == resList.GroupVersion \o <<"/">> \o r.Kind
                              \o <<"/">> \o r.Name
             gv == SplitAPIVersion(resList.GroupVersion)
             apiVersion == IF gv[1] = <<>> THEN gv[2] ELSE resList.GroupVersion
         IN  IF ~contains(r.Verbs, "watch") \/ ContainsSlash(r.Name)
             THEN processResources(lists, i, j + 1, processedResources, resources)
             ELSE IF resourceKey \in processedResources
             THEN processResources(lists, i, j + 1, processedResources, resources)
             ELSE processResources(lists, i, j + 1,
                      processedResources \cup {resourceKey},
                      Append(resources,
                             ResourceToWatch(r.Kind, apiVersion, r.Namespaced)))

\* Returns [resources, err] for an answer of the discovery client.
discoverAllResources(answer) ==
    IF answer.err # "none" /\ ~IsGroupDiscoveryFailedError(answer.err)
    THEN [resources |-> <<>>, err |-> answer.err]
    ELSE [resources |-> processResources(answer.lists, 1, 1, {}, <<>>),
          err |-> "none"]

Added == "ADDED"

Modified == "MODIFIED"

Deleted == "DELETED"

Error == "ERROR"

EventTypes == {Added, Modified, Deleted, Error}

Namespaces == { <<>>, <<"n">> }

Names == { <<"a">> }

\* Version tokens; "" is a payload without metadata.resourceVersion.
Tokens == {"", "1", "2"}

\* A watch.Event whose Object is an *unstructured.Unstructured.
Unstructured(type, namespace, name, resourceVersion) ==
    [type |-> type, object |-> "Unstructured", namespace |-> namespace,
     name |-> name, resourceVersion |-> resourceVersion, message |-> ""]

\* A watch.Event whose Object is a *metav1.Status.
Status(type, message) ==
    [type |-> type, object |-> "Status", namespace |-> <<>>,
     name |-> <<>>, resourceVersion |-> "", message |-> message]

RawEvents ==
    { Unstructured(t, ns, n, rv) :
        t \in EventTypes, ns \in Namespaces, n \in Names, rv \in Tokens }
    \cup { Status(Error, "too old resource version") }

\* The events of a cluster that holds one object and never changes it.
QuietEvents ==
    { Unstructured(Added, <<>>, <<"a">>, "1") }

(***************************************************************************)
(* Event normalizer (handleEvent).                                         *)
(***************************************************************************)
\* A key that leaves the namespace out.
ResourceKeyOfNameOnly(namespace, name) ==
    <<"/">> \o name

\* fmt.Sprintf("%s/%s", namespace, name)
ResourceKey(namespace, name) ==
    namespace \o <<"/">> \o name

Keys == { ResourceKey(ns, n) : ns \in Namespaces, n \in Names }

\* map[string]string: a key without an entry maps to NoEntry.
NoEntry == "<no entry>"

EmptyVersions == [k \in Keys |-> NoEntry]

\* m[k] of Go: the zero value "" when there is no entry.
MapGet(m, k) ==
    IF m[k] = NoEntry THEN "" ELSE m[k]

MapSet(m, k, v) ==
    [m EXCEPT ![k] = v]

\* A delete that leaves the entry in the map.
MapDeleteKeeps(m, k) ==
    m

MapDelete(m, k) ==
    [m EXCEPT ![k] = NoEntry]

NoEvent == [Type |-> "none"]

\* m[k] read after the new token was stored.
handleEventReadsAfterStore(event, resource, resourceVersions) ==
    IF event.object # "Unstructured"
    THEN [called |-> FALSE, event |-> NoEvent, versions |-> resourceVersions]
    ELSE LET resourceKey == ResourceKey(event.namespace, event.name)
             resourceEvent ==
                 [ Type |-> event.type, Resource |-> resource,
                   Name |-> event.name, Namespace |-> event.namespace,
                   ResourceVersion |-> event.resourceVersion,
                   PreviousResourceVersion |->
                       IF event.type = Modified
                       THEN event.resourceVersion ELSE "",
                   Error |-> IF event.type = Error
                             THEN "unknown error event" ELSE "nil" ]
         IN  [ called |-> TRUE, event |-> resourceEvent,
               versions |->
                   IF event.type \in {Added, Modified}
                   THEN MapSet(resourceVersions, resourceKey,
                               event.resourceVersion)
                   ELSE IF event.type = Deleted
                   THEN MapDelete(resourceVersions, resourceKey)
                   ELSE resourceVersions ]

\* handleEvent that forgets the object an Error event names.
handleEventErrorForgets(event, resource, resourceVersions) ==
    IF event.object # "Unstructured"
    THEN [called |-> FALSE, event |-> NoEvent, versions |-> resourceVersions]
    ELSE LET name == event.name
             namespace == event.namespace
             resourceVersion == event.resourceVersion
             resourceKey == ResourceKey(namespace, name)
             resourceEvent ==
                 [ Type |-> event.type, Resource |-> resource, Name |-> name,
                   Namespace |-> namespace, ResourceVersion |-> resourceVersion,
                   PreviousResourceVersion |-> "", Error |-> "nil" ]
         IN  CASE event.type = Added ->
                    [ called |-> TRUE, event |-> resourceEvent,
                      versions |-> MapSet(resourceVersions, resourceKey,
                                          resourceVersion) ]
               [] event.type = Modified ->
                    [ called |-> TRUE,
                      event |-> [resourceEvent EXCEPT
                                   !.PreviousResourceVersion =
                                       MapGet(resourceVersions, resourceKey)],
                      versions |-> MapSet(resourceVersions, resourceKey,
                                          resourceVersion) ]
               [] event.type = Deleted ->
                    [ called |-> TRUE, event |-> resourceEvent,
                      versions |-> MapDelete(resourceVersions, resourceKey) ]
               [] event.type = Error ->
                    [ called |-> TRUE,
                      event |-> [resourceEvent EXCEPT
                                   !.Error =
                                       IF event.object = "Status"
                                       THEN "error event: " \o event.message
                                       ELSE "unknown error event"],
                      versions |-> MapDelete(resourceVersions, resourceKey) ]
               [] OTHER ->
                    [ called |-> TRUE, event |-> resourceEvent,
                      versions |-> resourceVersions ]

\* handleEvent without the test of the payload's type.
handleEventTakesAnyPayload(event, resource, resourceVersions) ==
    IF FALSE
    THEN [called |-> FALSE, event |-> NoEvent, versions |-> resourceVersions]
    ELSE LET name == event.name
             namespace == event.namespace
             resourceVersion == event.resourceVersion
             resourceKey == ResourceKey(namespace, name)
             resourceEvent ==
                 [ Type |-> event.type, Resource |-> resource, Name |-> name,
                   Namespace |-> namespace, ResourceVersion |-> resourceVersion,
                   PreviousResourceVersion |-> "", Error |-> "nil" ]
         IN  CASE event.type = Added ->
                    [ called |-> TRUE, event |-> resourceEvent,
                      versions |-> MapSet(resourceVersions, resourceKey,
                                          resourceVersion) ]
               [] event.type = Modified ->
                    [ called |-> TRUE,
                      event |-> [resourceEvent EXCEPT
                                   !.PreviousResourceVersion =
                                       MapGet(resourceVersions, resourceKey)],
                      versions |-> MapSet(resourceVersions, resourceKey,
                                          resourceVersion) ]
               [] event.type = Deleted ->
                    [ called |-> TRUE, event |-> resourceEvent,
                      versions |-> MapDelete(resourceVersions, resourceKey) ]
               [] event.type = Error ->
                    [ called |-> TRUE,
                      event |-> [resourceEvent EXCEPT
                                   !.Error =
                                       IF event.object = "Status"
                                       THEN "error event: " \o event.message
                                       ELSE "unknown error event"],
                      versions |-> resourceVersions ]
               [] OTHER ->
                    [ called |-> TRUE, event |-> resourceEvent,
                      versions |-> resourceVersions ]

\* What handleEvent does with one raw event: whether the handler is called,
\* the ResourceEvent it is called with, and the resourceVersions map after.
handleEvent(event, resource, resourceVersions) ==
    IF event.object # "Unstructured"
    THEN [called |-> FALSE, event |-> NoEvent, versions |-> resourceVersions]
    ELSE LET name == event.name
             namespace == event.namespace
             resourceVersion == event.resourceVersion
             resourceKey == ResourceKey(namespace, name)
             resourceEvent ==
                 [ Type |-> event.type, Resource |-> resource, Name |-> name,
                   Namespace |-> namespace, ResourceVersion |-> resourceVersion,
                   PreviousResourceVersion |-> "", Error |-> "nil" ]
         IN  CASE event.type = Added ->
                    [ called |-> TRUE, event |-> resourceEvent,
                      versions |-> MapSet(resourceVersions, resourceKey,
                                          resourceVersion) ]
               [] event.type = Modified ->
                    [ called |-> TRUE,
                      event |-> [resourceEvent EXCEPT
                                   !.PreviousResourceVersion =
                                       MapGet(resourceVersions, resourceKey)],
                      versions |-> MapSet(resourceVersions, resourceKey,
                                          resourceVersion) ]
               [] event.type = Deleted ->
                    [ called |-> TRUE, event |-> resourceEvent,
                      versions |-> MapDelete(resourceVersions, resourceKey) ]
               [] event.type = Error ->
                    [ called |-> TRUE,
                      event |-> [resourceEvent EXCEPT
                                   !.Error =
                                       IF event.object = "Status"
                                       THEN "error event: " \o event.message
                                       ELSE "unknown error event"],
                      versions |-> resourceVersions ]
               [] OTHER ->
                    [ called |-> TRUE, event |-> resourceEvent,
                      versions |-> resourceVersions ]

(***************************************************************************)
(* The ResourceStore: the table resources of the SQLite database.          *)
(***************************************************************************)
\* The Resource values the store is called with.
StoreResources ==
    [ Name : Names, Namespace : Namespaces,
      Kind : { DefaultResourceTypes[1].Kind, Widget.Kind },
      APIVersion : { V1 }, ResourceVersion : { "1", "2" },
      Data : { "d1", "d2" } ]

\* UNIQUE(kind, api_version, namespace, name)
StoreKey(kind, apiVersion, namespace, name) ==
    << kind, apiVersion, namespace, name >>

KeyOf(row) ==
    StoreKey(row.Kind, row.APIVersion, row.Namespace, row.Name)

StoreKeys ==
    { KeyOf(r) : r \in StoreResources }

\* initialize: the empty table; seq is the AUTOINCREMENT counter, log the
\* calls made so far.
EmptyStore ==
    [rows |-> {}, seq |-> 0, log |-> <<>>]

\* The INSERT of Upsert without its ON CONFLICT clause and without the
\* UNIQUE constraint: a new row each time.
InsertInto(s, resource) ==
    [s EXCEPT !.rows = @ \cup { [ID |-> s.seq + 1, Name |-> resource.Name,
                                  Namespace |-> resource.Namespace,
                                  Kind |-> resource.Kind,
                                  APIVersion |-> resource.APIVersion,
                                  ResourceVersion |-> resource.ResourceVersion,
                                  Data |-> resource.Data] },
              !.seq = @ + 1]

\* INSERT ... ON CONFLICT(kind, api_version, namespace, name) DO UPDATE SET
\* resource_version = ?, data = ?
UpsertInto(s, resource) ==
    IF \E row \in s.rows : KeyOf(row) = KeyOf(resource)
    THEN [s EXCEPT !.rows =
            { IF KeyOf(row) = KeyOf(resource)
              THEN [row EXCEPT !.ResourceVersion = resource.ResourceVersion,
                               !.Data = resource.Data]
              ELSE row : row \in s.rows }]
    ELSE [s EXCEPT !.rows = @ \cup { [ID |-> s.seq + 1,
                                       Name |-> resource.Name,
                                       Namespace |-> resource.Namespace,
                                       Kind |-> resource.Kind,
                                       APIVersion |-> resource.APIVersion,
                                       ResourceVersion |->
                                           resource.ResourceVersion,
                                       Data |-> resource.Data] },
                   !.seq = @ + 1]

\* DELETE FROM resources WHERE kind = ? AND api_version = ? AND
\* namespace = ? AND name = ?
DeleteFrom(s, kind, apiVersion, namespace, name) ==
    [s EXCEPT !.rows = { row \in @ : KeyOf(row) # StoreKey(kind, apiVersion,
                                                            namespace, name) }]

(***************************************************************************)
(* State.                                                                  *)
(***************************************************************************)
VARIABLES
    options,         \* K8sWatcher.options, as NewWatcher stored them
    watching,        \* K8sWatcher.watching
    stopCh,          \* K8sWatcher.stopCh: the identity of the current channel
    closedCh,        \* the stop channels that have been closed
    mu,              \* K8sWatcher.mu: 0, or the Stop call that holds it
    activeWatchers,  \* K8sWatcher.activeWatchers: the WaitGroup counter
    parentDone,      \* whether the ctx the clients pass to Start is cancelled
    nCalls,          \* number of Start/Stop calls made so far
    call,            \* per call: the operation and where it stands
    ctxDone,         \* per Start call: whether cancel() of watchCtx was called
    fwd,             \* per Start call: its stop-forwarding task
    res,             \* per Start call: resourcesToWatch
    loop,            \* per Start call and position in res: the watch loop
    openLog,         \* per loop: the outcomes of its Watch calls, in order
    sleepLog,        \* per loop: the seconds of its backoff sleeps, in order
    recv,            \* per loop: the raw events it took from its subscriptions
    delivered,       \* per loop: the ResourceEvents it called the handler with
    store            \* the ResourceStore: its table and the calls made on it

vars == << options, watching, stopCh, closedCh, mu, activeWatchers, parentDone,
           nCalls, call, ctxDone, fwd, res, loop, openLog, sleepLog, recv,
           delivered, store >>

Slots == 1..Len(DefaultResourceTypes)

LoopIds == Calls \X Slots

\* No loop: the Stop call was made by a client, not from inside a handler.
NoLoop == <<0, 0>>

NoCall ==
    [op |-> "none", pc |-> "none", idx |-> 1, ret |-> "", via |-> NoLoop,
     after |-> {}, stopSince |-> FALSE, discovered |-> NoAnswer,
     closed |-> 0]

NoForwarder == [pc |-> "none", ch |-> 0]

NoTarget ==
    [Group |-> <<>>, Version |-> <<>>, Resource |-> <<>>, Namespace |-> <<>>]

NoLoopState ==
    [pc |-> "unspawned", resource |-> Widget, gvr |-> NoTarget, retries |-> 0,
     resourceVersions |-> EmptyVersions, sub |-> "none", arg |-> NoEvent,
     why |-> "", snapshot |-> "none"]

\* NewWatcher: the defaults are set when no type is given and WatchAll is off.
NewWatcher(o) ==
    IF Len(o.ResourceTypes) = 0 /\ ~o.WatchAll
    THEN [o EXCEPT !.ResourceTypes = DefaultResourceTypes]
    ELSE o

InitWith(o) ==
    /\ options = NewWatcher(o)
    /\ watching = FALSE
    /\ stopCh = 0
    /\ closedCh = {}
    /\ mu = 0
    /\ activeWatchers = 0
    /\ parentDone = FALSE
    /\ nCalls = 0
    /\ call = [c \in Calls |-> NoCall]
    /\ ctxDone = [c \in Calls |-> FALSE]
    /\ fwd = [c \in Calls |-> NoForwarder]
    /\ res = [c \in Calls |-> <<>>]
    /\ loop = [l \in LoopIds |-> NoLoopState]
    /\ openLog = [l \in LoopIds |-> <<>>]
    /\ sleepLog = [l \in LoopIds |-> <<>>]
    /\ recv = [l \in LoopIds |-> <<>>]
    /\ delivered = [l \in LoopIds |-> <<>>]
    /\ store = EmptyStore

Init ==
    \E o \in OptionSet : InitWith(o)

\* ctx.Done() of the loops of Start call c is ready: watchCtx is a child of
\* the ctx passed to Start.
CtxDone(c) ==
    ctxDone[c] \/ parentDone

Active(c) ==
    call[c].op # "none" /\ call[c].pc # "returned"

(***************************************************************************)
(* Clients: calls of Start and Stop, and cancellation of the passed ctx.   *)
(***************************************************************************)
CallStart ==
    /\ nCalls < MaxCalls
    /\ nCalls' = nCalls + 1
    /\ call' = [call EXCEPT ![nCalls + 1] =
                   [NoCall EXCEPT !.op = "Start", !.pc = "check",
                       !.stopSince = \E d \in Calls :
                                        call[d].op = "Stop" /\ Active(d)]]
    /\ UNCHANGED << options, store, watching, stopCh, closedCh, mu, activeWatchers,
                    parentDone, ctxDone, fwd, res, loop, openLog, sleepLog,
                    recv, delivered >>

\* A Stop call, made by a client (via = NoLoop) or by the handler that loop
\* `via` is running.
CallStop(via) ==
    /\ nCalls < MaxCalls
    /\ nCalls' = nCalls + 1
    /\ call' = [c \in Calls |->
                  IF c = nCalls + 1
                  THEN [NoCall EXCEPT !.op = "Stop", !.pc = "lock", !.via = via,
                           !.after = {s \in Calls : /\ call[s].op = "Start"
                                                    /\ call[s].ret = "nil"}]
                  ELSE IF call[c].op = "Start"
                  THEN [call[c] EXCEPT !.stopSince = TRUE]
                  ELSE call[c]]
    /\ UNCHANGED << options, store, watching, stopCh, closedCh, mu, activeWatchers,
                    parentDone, ctxDone, fwd, res, loop, openLog, sleepLog,
                    recv, delivered >>

ClientStop ==
    CallStop(NoLoop)

HandlerStop ==
    \E l \in LoopIds :
        /\ loop[l].pc = "handler"
        /\ \A d \in Calls : Active(d) => call[d].via # l
        /\ CallStop(l)

CancelParent ==
    /\ ~parentDone
    /\ parentDone' = TRUE
    /\ UNCHANGED << options, store, watching, stopCh, closedCh, mu, activeWatchers,
                    nCalls, call, ctxDone, fwd, res, loop, openLog, sleepLog,
                    recv, delivered >>

(***************************************************************************)
(* K8sWatcher.Start.                                                       *)
(***************************************************************************)
\* The locked section when the watcher is running already.
StartRejected(c) ==
    /\ call[c].op = "Start" /\ call[c].pc = "check"
    /\ mu = 0
    /\ watching
    /\ call' = [call EXCEPT ![c].pc = "returned",
                            ![c].ret = "watcher is already running"]
    /\ UNCHANGED << options, store, watching, stopCh, closedCh, mu, activeWatchers,
                    parentDone, nCalls, ctxDone, fwd, res, loop, openLog,
                    sleepLog, recv, delivered >>

\* StartAccepted without the test of w.watching.
StartAcceptedUnchecked(c) ==
    /\ call[c].op = "Start" /\ call[c].pc = "check"
    /\ mu = 0
    /\ watching' = TRUE
    /\ stopCh' = c
    /\ fwd' = [fwd EXCEPT ![c] = [pc |-> "spawned", ch |-> 0]]
    /\ call' = [call EXCEPT ![c].pc = "resolve"]
    /\ UNCHANGED << options, store, closedCh, mu, activeWatchers, parentDone, nCalls,
                    ctxDone, res, loop, openLog, sleepLog, recv, delivered >>

\* StartAccepted that keeps the stop channel the watcher has.
StartAcceptedKeepsChannel(c) ==
    /\ call[c].op = "Start" /\ call[c].pc = "check"
    /\ mu = 0
    /\ ~watching
    /\ watching' = TRUE
    /\ stopCh' = stopCh
    /\ fwd' = [fwd EXCEPT ![c] = [pc |-> "spawned", ch |-> 0]]
    /\ call' = [call EXCEPT ![c].pc = "resolve"]
    /\ UNCHANGED << options, store, closedCh, mu, activeWatchers, parentDone, nCalls,
                    ctxDone, res, loop, openLog, sleepLog, recv, delivered >>

\* The locked section when it is not: the flag, a fresh stop channel, and the
\* go statement of the stop-forwarding task.
StartAccepted(c) ==
    /\ call[c].op = "Start" /\ call[c].pc = "check"
    /\ mu = 0
    /\ ~watching
    /\ watching' = TRUE
    /\ stopCh' = c
    /\ fwd' = [fwd EXCEPT ![c] = [pc |-> "spawned", ch |-> 0]]
    /\ call' = [call EXCEPT ![c].pc = "resolve"]
    /\ UNCHANGED << options, store, closedCh, mu, activeWatchers, parentDone, nCalls,
                    ctxDone, res, loop, openLog, sleepLog, recv, delivered >>

\* resourcesToWatch = w.options.ResourceTypes
StartExplicit(c) ==
    /\ call[c].op = "Start" /\ call[c].pc = "resolve"
    /\ ~options.WatchAll
    /\ res' = [res EXCEPT ![c] = options.ResourceTypes]
    /\ call' = [call EXCEPT ![c].pc = "spawn"]
    /\ UNCHANGED << options, store, watching, stopCh, closedCh, mu, activeWatchers,
                    parentDone, nCalls, ctxDone, fwd, loop, openLog, sleepLog,
                    recv, delivered >>

\* resourcesToWatch, err = w.discoverAllResources(), with the return on err.
StartDiscover(c) ==
    /\ call[c].op = "Start" /\ call[c].pc = "resolve"
    /\ options.WatchAll
    /\ \E answer \in DiscoveryAnswers :
         LET d == discoverAllResources(answer)
         IN  IF d.err # "none"
             THEN /\ call' = [call EXCEPT ![c].pc = "returned",
                                 ![c].ret = "error discovering resources",
                                 ![c].discovered = answer]
                  /\ res' = res
             ELSE /\ call' = [call EXCEPT ![c].pc = "spawn",
                                          ![c].discovered = answer]
                  /\ res' = [res EXCEPT ![c] = d.resources]
    /\ UNCHANGED << options, store, watching, stopCh, closedCh, mu, activeWatchers,
                    parentDone, nCalls, ctxDone, fwd, loop, openLog, sleepLog,
                    recv, delivered >>

\* The subscription target of startResourceWatcher: the GroupVersionResource
\* and the namespace scope ("" for the whole cluster).
WatchTarget(resource, namespace) ==
    [ Group |-> SplitAPIVersion(resource.APIVersion)[1],
      Version |-> SplitAPIVersion(resource.APIVersion)[2],
      Resource |-> getResourceNameFromKind(resource.Kind),
      Namespace |-> IF resource.Namespaced /\ namespace # <<>>
                    THEN namespace ELSE <<>> ]

\* startResourceWatcher for the next resource of the range loop: Add(1) and
\* the go statement of the watch loop.
StartSpawn(c) ==
    /\ call[c].op = "Start" /\ call[c].pc = "spawn"
    /\ call[c].idx <= Len(res[c])
    /\ activeWatchers' = activeWatchers + 1
    /\ loop' = [loop EXCEPT ![<<c, call[c].idx>>] =
                   [NoLoopState EXCEPT !.pc = "top",
                                       !.resource = res[c][call[c].idx],
                                       !.gvr = WatchTarget(res[c][call[c].idx],
                                                           options.Namespace)]]
    /\ call' = [call EXCEPT ![c].idx = @ + 1]
    /\ UNCHANGED << options, store, watching, stopCh, closedCh, mu, parentDone,
                    nCalls, ctxDone, fwd, res, openLog, sleepLog, recv,
                    delivered >>

\* StartReturn after a wait for the loops: activeWatchers.Wait() first.
StartReturnWaits(c) ==
    /\ call[c].op = "Start" /\ call[c].pc = "spawn"
    /\ call[c].idx > Len(res[c])
    /\ activeWatchers = 0
    /\ call' = [call EXCEPT ![c].pc = "returned", ![c].ret = "nil"]
    /\ UNCHANGED << options, store, watching, stopCh, closedCh, mu, activeWatchers,
                    parentDone, nCalls, ctxDone, fwd, res, loop, openLog,
                    sleepLog, recv, delivered >>

\* return nil
StartReturn(c) ==
    /\ call[c].op = "Start" /\ call[c].pc = "spawn"
    /\ call[c].idx > Len(res[c])
    /\ call' = [call EXCEPT ![c].pc = "returned", ![c].ret = "nil"]
    /\ UNCHANGED << options, store, watching, stopCh, closedCh, mu, activeWatchers,
                    parentDone, nCalls, ctxDone, fwd, res, loop, openLog,
                    sleepLog, recv, delivered >>

(***************************************************************************)
(* The stop-forwarding task of Start.                                      *)
(***************************************************************************)
\* The task enters its select: w.stopCh is read here, once.
FwdEnter(c) ==
    /\ fwd[c].pc = "spawned"
    /\ fwd' = [fwd EXCEPT ![c] = [pc |-> "waiting", ch |-> stopCh]]
    /\ UNCHANGED << options, store, watching, stopCh, closedCh, mu, activeWatchers,
                    parentDone, nCalls, call, ctxDone, res, loop, openLog,
                    sleepLog, recv, delivered >>

\* case <-w.stopCh: cancel()
FwdStop(c) ==
    /\ fwd[c].pc = "waiting"
    /\ fwd[c].ch \in closedCh
    /\ ctxDone' = [ctxDone EXCEPT ![c] = TRUE]
    /\ fwd' = [fwd EXCEPT ![c].pc = "done"]
    /\ UNCHANGED << options, store, watching, stopCh, closedCh, mu, activeWatchers,
                    parentDone, nCalls, call, res, loop, openLog, sleepLog,
                    recv, delivered >>

\* case <-watchCtx.Done()
FwdCtx(c) ==
    /\ fwd[c].pc = "waiting"
    /\ CtxDone(c)
    /\ fwd' = [fwd EXCEPT ![c].pc = "done"]
    /\ UNCHANGED << options, store, watching, stopCh, closedCh, mu, activeWatchers,
                    parentDone, nCalls, call, ctxDone, res, loop, openLog,
                    sleepLog, recv, delivered >>

(***************************************************************************)
(* K8sWatcher.Stop.  The mutex is held from Lock to the return.            *)
(***************************************************************************)
\* StopNoop that closes the stop channel before it returns.
StopNoopCloses(c) ==
    /\ call[c].op = "Stop" /\ call[c].pc = "lock"
    /\ mu = 0
    /\ ~watching
    /\ closedCh' = closedCh \cup {stopCh}
    /\ call' = [call EXCEPT ![c].pc = "returned", ![c].ret = "not watching"]
    /\ UNCHANGED << options, store, watching, stopCh, mu, activeWatchers,
                    parentDone, nCalls, ctxDone, fwd, res, loop, openLog,
                    sleepLog, recv, delivered >>

\* if !w.watching { return }
StopNoop(c) ==
    /\ call[c].op = "Stop" /\ call[c].pc = "lock"
    /\ mu = 0
    /\ ~watching
    /\ call' = [call EXCEPT ![c].pc = "returned", ![c].ret = "not watching"]
    /\ UNCHANGED << options, store, watching, stopCh, closedCh, mu, activeWatchers,
                    parentDone, nCalls, ctxDone, fwd, res, loop, openLog,
                    sleepLog, recv, delivered >>

\* close(w.stopCh); w.watching = false; the wait begins.
StopClose(c) ==
    /\ call[c].op = "Stop" /\ call[c].pc = "lock"
    /\ mu = 0
    /\ watching
    /\ mu' = c
    /\ closedCh' = closedCh \cup {stopCh}
    /\ watching' = FALSE
    /\ call' = [call EXCEPT ![c].pc = "wait", ![c].closed = stopCh]
    /\ UNCHANGED << options, store, stopCh, activeWatchers, parentDone, nCalls,
                    ctxDone, fwd, res, loop, openLog, sleepLog, recv,
                    delivered >>

\* case <-done: activeWatchers.Wait() returned, the counter being zero.
StopClean(c) ==
    /\ call[c].op = "Stop" /\ call[c].pc = "wait"
    /\ activeWatchers = 0
    /\ mu' = 0
    /\ call' = [call EXCEPT ![c].pc = "returned", ![c].ret = "clean"]
    /\ UNCHANGED << options, store, watching, stopCh, closedCh, activeWatchers,
                    parentDone, nCalls, ctxDone, fwd, res, loop, openLog,
                    sleepLog, recv, delivered >>

\* StopTimeout without the timer: the wait ends only when the counter is zero.
StopWaitsForAll(c) ==
    /\ call[c].op = "Stop" /\ call[c].pc = "wait"
    /\ activeWatchers = 0
    /\ mu' = 0
    /\ call' = [call EXCEPT ![c].pc = "returned", ![c].ret = "timed out"]
    /\ UNCHANGED << options, store, watching, stopCh, closedCh, activeWatchers,
                    parentDone, nCalls, ctxDone, fwd, res, loop, openLog,
                    sleepLog, recv, delivered >>

\* case <-time.After(10 * time.Second)
StopTimeout(c) ==
    /\ call[c].op = "Stop" /\ call[c].pc = "wait"
    /\ mu' = 0
    /\ call' = [call EXCEPT ![c].pc = "returned", ![c].ret = "timed out"]
    /\ UNCHANGED << options, store, watching, stopCh, closedCh, activeWatchers,
                    parentDone, nCalls, ctxDone, fwd, res, loop, openLog,
                    sleepLog, recv, delivered >>

\* LoopReturn that leaves the WaitGroup alone when the resource type is
\* missing.
LoopReturnKeepsCount(l, why) ==
    /\ loop' = [loop EXCEPT ![l].pc = "done", ![l].why = why,
                            ![l].sub = IF @ = "none" THEN "none" ELSE "stopped"]
    /\ activeWatchers' = IF why = "not available" THEN activeWatchers
                                                  ELSE activeWatchers - 1

(***************************************************************************)
(* The watch loop: the goroutine of startResourceWatcher.                  *)
(*   top        the select on ctx.Done() that begins an iteration          *)
(*   open       inside resourceInterface.Watch                             *)
(*   backoff    inside the time.Sleep after a failed Watch                 *)
(*   select     at the select of the inner for                             *)
(*   handler    inside handler(resourceEvent), called by handleEvent       *)
(*   isWatching inside a call of IsWatching that the handler made          *)
(*   closeDelay inside the time.Sleep after the channel was seen closed    *)
(*   done       returned; the deferred activeWatchers.Done() has run       *)
(***************************************************************************)
\* return, with the deferred w.activeWatchers.Done()
LoopReturn(l, why) ==
    /\ loop' = [loop EXCEPT ![l].pc = "done", ![l].why = why,
                            ![l].sub = IF @ = "none" THEN "none" ELSE "stopped"]
    /\ activeWatchers' = activeWatchers - 1

\* TopCancelled that marks the watcher as stopped when its loop returns.
TopCancelledClearsFlag(l) ==
    /\ loop[l].pc = "top"
    /\ CtxDone(l[1])
    /\ LoopReturn(l, "context canceled")
    /\ watching' = FALSE
    /\ UNCHANGED << options, store, stopCh, closedCh, mu, parentDone,
                    nCalls, call, ctxDone, fwd, res, openLog, sleepLog, recv,
                    delivered >>

\* select { case <-ctx.Done(): return
TopCancelled(l) ==
    /\ loop[l].pc = "top"
    /\ CtxDone(l[1])
    /\ LoopReturn(l, "context canceled")
    /\ UNCHANGED << options, store, watching, stopCh, closedCh, mu, parentDone,
                    nCalls, call, ctxDone, fwd, res, openLog, sleepLog, recv,
                    delivered >>

\* TopContinue without the look at ctx.Done().
TopContinueUnchecked(l) ==
    /\ loop[l].pc = "top"
    /\ loop' = [loop EXCEPT ![l].pc = "open"]
    /\ UNCHANGED << options, store, watching, stopCh, closedCh, mu, activeWatchers,
                    parentDone, nCalls, call, ctxDone, fwd, res, openLog,
                    sleepLog, recv, delivered >>

\* default: } and on to the Watch call
TopContinue(l) ==
    /\ loop[l].pc = "top"
    /\ ~CtxDone(l[1])
    /\ loop' = [loop EXCEPT ![l].pc = "open"]
    /\ UNCHANGED << options, store, watching, stopCh, closedCh, mu, activeWatchers,
                    parentDone, nCalls, call, ctxDone, fwd, res, openLog,
                    sleepLog, recv, delivered >>

\* OpenSucceeded that a loop can take after it has returned as well.
OpenSucceededFromAnywhere(l) ==
    /\ loop[l].pc \in {"open", "done"}
    /\ loop' = [loop EXCEPT ![l].pc = "select", ![l].retries = 0,
                            ![l].sub = "open"]
    /\ openLog' = [openLog EXCEPT ![l] = Append(@, "ok")]
    /\ UNCHANGED << options, store, watching, stopCh, closedCh, mu, activeWatchers,
                    parentDone, nCalls, call, ctxDone, fwd, res, sleepLog,
                    recv, delivered >>

\* OpenSucceeded that leaves retries as it is.
OpenSucceededKeepsRetries(l) ==
    /\ loop[l].pc = "open"
    /\ loop' = [loop EXCEPT ![l].pc = "select",
                            ![l].sub = "open"]
    /\ openLog' = [openLog EXCEPT ![l] = Append(@, "ok")]
    /\ UNCHANGED << options, store, watching, stopCh, closedCh, mu, activeWatchers,
                    parentDone, nCalls, call, ctxDone, fwd, res, sleepLog,
                    recv, delivered >>

\* Watch returned a watcher: retries = 0, ch = watcher.ResultChan()
OpenSucceeded(l) ==
    /\ loop[l].pc = "open"
    /\ loop' = [loop EXCEPT ![l].pc = "select", ![l].retries = 0,
                            ![l].sub = "open"]
    /\ openLog' = [openLog EXCEPT ![l] = Append(@, "ok")]
    /\ UNCHANGED << options, store, watching, stopCh, closedCh, mu, activeWatchers,
                    parentDone, nCalls, call, ctxDone, fwd, res, sleepLog,
                    recv, delivered >>

NotFoundError == "the server could not find the requested resource"

TransientError == "connection refused"

\* strings.Contains(err.Error(), "could not find the requested resource")
IsNotFound(err) ==
    err = NotFoundError

\* OpenFailed without the test for a missing resource type: every error is
\* retried.
OpenFailedAlwaysRetries(l, err) ==
    /\ loop[l].pc = "open"
    /\ openLog' = [openLog EXCEPT ![l] = Append(@, err)]
    /\ IF loop[l].retries > MaxRetries
       THEN /\ LoopReturn(l, "giving up")
            /\ sleepLog' = sleepLog
       ELSE /\ loop' = [loop EXCEPT ![l].pc = "backoff",
                                    ![l].retries = @ + 1]
            /\ sleepLog' = [sleepLog EXCEPT ![l] =
                               Append(@, BackoffFactor * (loop[l].retries + 1))]
            /\ activeWatchers' = activeWatchers
    /\ UNCHANGED << options, store, watching, stopCh, closedCh, mu, parentDone,
                    nCalls, call, ctxDone, fwd, res, recv, delivered >>

\* OpenFailed with a give-up that ends every loop of the watcher.
OpenFailedStopsAll(l, err) ==
    /\ loop[l].pc = "open"
    /\ openLog' = [openLog EXCEPT ![l] = Append(@, err)]
    /\ IF loop[l].retries > MaxRetries
       THEN /\ loop' = [x \in LoopIds |->
                          IF loop[x].pc \in {"unspawned", "done"}
                          THEN loop[x]
                          ELSE [loop[x] EXCEPT !.pc = "done",
                                               !.why = "giving up"]]
            /\ activeWatchers' = 0
            /\ sleepLog' = sleepLog
       ELSE IF IsNotFound(err)
       THEN /\ LoopReturn(l, "not available")
            /\ sleepLog' = sleepLog
       ELSE /\ loop' = [loop EXCEPT ![l].pc = "backoff",
                                    ![l].retries = @ + 1]
            /\ sleepLog' = [sleepLog EXCEPT ![l] =
                               Append(@, BackoffFactor * (loop[l].retries + 1))]
            /\ activeWatchers' = activeWatchers
    /\ UNCHANGED << options, store, watching, stopCh, closedCh, mu, parentDone,
                    nCalls, call, ctxDone, fwd, res, recv, delivered >>

\* if err != nil { ... }: Watch returned err.
OpenFailed(l, err) ==
    /\ loop[l].pc = "open"
    /\ openLog' = [openLog EXCEPT ![l] = Append(@, err)]
    /\ IF loop[l].retries > MaxRetries
       THEN /\ LoopReturn(l, "giving up")
            /\ sleepLog' = sleepLog
       ELSE IF IsNotFound(err)
       THEN /\ LoopReturn(l, "not available")
            /\ sleepLog' = sleepLog
       ELSE /\ loop' = [loop EXCEPT ![l].pc = "backoff",
                                    ![l].retries = @ + 1]
            /\ sleepLog' = [sleepLog EXCEPT ![l] =
                               Append(@, BackoffFactor * (loop[l].retries + 1))]
            /\ activeWatchers' = activeWatchers
    /\ UNCHANGED << options, store, watching, stopCh, closedCh, mu, parentDone,
                    nCalls, call, ctxDone, fwd, res, recv, delivered >>

OpenTransient(l) ==
    OpenFailed(l, TransientError)

OpenNotFound(l) ==
    OpenFailed(l, NotFoundError)

\* BackoffDone that goes on to the Watch call without the look at
\* ctx.Done().
BackoffDoneReopens(l) ==
    /\ loop[l].pc = "backoff"
    /\ loop' = [loop EXCEPT ![l].pc = "open"]
    /\ UNCHANGED << options, store, watching, stopCh, closedCh, mu, activeWatchers,
                    parentDone, nCalls, call, ctxDone, fwd, res, openLog,
                    sleepLog, recv, delivered >>

\* The backoff sleep is over: continue
BackoffDone(l) ==
    /\ loop[l].pc = "backoff"
    /\ loop' = [loop EXCEPT ![l].pc = "top"]
    /\ UNCHANGED << options, store, watching, stopCh, closedCh, mu, activeWatchers,
                    parentDone, nCalls, call, ctxDone, fwd, res, openLog,
                    sleepLog, recv, delivered >>

\* SelectCancelled that also ends a loop whose handler has not returned.
SelectCancelledAnywhere(l) ==
    /\ loop[l].pc \in {"select", "handler"}
    /\ CtxDone(l[1])
    /\ LoopReturn(l, "context canceled")
    /\ UNCHANGED << options, store, watching, stopCh, closedCh, mu, parentDone,
                    nCalls, call, ctxDone, fwd, res, openLog, sleepLog, recv,
                    delivered >>

\* case <-ctx.Done(): watcher.Stop(); watchCancel(); return
SelectCancelled(l) ==
    /\ loop[l].pc = "select"
    /\ CtxDone(l[1])
    /\ LoopReturn(l, "context canceled")
    /\ UNCHANGED << options, store, watching, stopCh, closedCh, mu, parentDone,
                    nCalls, call, ctxDone, fwd, res, openLog, sleepLog, recv,
                    delivered >>

\* Receive that hands the event over ahead of those handed over before.
ReceivePrepends(l, event) ==
    /\ loop[l].pc = "select"
    /\ loop[l].sub = "open"
    /\ Len(recv[l]) < MaxEvents
    /\ LET h == handleEvent(event, loop[l].resource, loop[l].resourceVersions)
       IN  /\ loop' = [loop EXCEPT
                          ![l].resourceVersions = h.versions,
                          ![l].pc = IF h.called THEN "handler" ELSE "select",
                          ![l].arg = h.event]
           /\ delivered' = [delivered EXCEPT ![l] =
                               IF h.called THEN <<h.event>> \o @ ELSE @]
    /\ recv' = [recv EXCEPT ![l] = Append(@, event)]
    /\ UNCHANGED << options, store, watching, stopCh, closedCh, mu, activeWatchers,
                    parentDone, nCalls, call, ctxDone, fwd, res, openLog,
                    sleepLog >>

\* Receive under a lock that the handler calls of all loops share.
ReceiveSerialized(l, event) ==
    /\ loop[l].pc = "select"
    /\ loop[l].sub = "open"
    /\ \A x \in LoopIds : loop[x].pc # "handler"
    /\ Len(recv[l]) < MaxEvents
    /\ LET h == handleEvent(event, loop[l].resource, loop[l].resourceVersions)
       IN  /\ loop' = [loop EXCEPT
                          ![l].resourceVersions = h.versions,
                          ![l].pc = IF h.called THEN "handler" ELSE "select",
                          ![l].arg = h.event]
           /\ delivered' = [delivered EXCEPT ![l] =
                               IF h.called THEN Append(@, h.event) ELSE @]
    /\ recv' = [recv EXCEPT ![l] = Append(@, event)]
    /\ UNCHANGED << options, store, watching, stopCh, closedCh, mu, activeWatchers,
                    parentDone, nCalls, call, ctxDone, fwd, res, openLog,
                    sleepLog >>

\* case event, ok := <-ch with ok: w.handleEvent(event, ...), up to the call
\* of the handler (or to the return of handleEvent, when it calls none).
Receive(l, event) ==
    /\ loop[l].pc = "select"
    /\ loop[l].sub = "open"
    /\ Len(recv[l]) < MaxEvents
    /\ LET h == handleEvent(event, loop[l].resource, loop[l].resourceVersions)
       IN  /\ loop' = [loop EXCEPT
                          ![l].resourceVersions = h.versions,
                          ![l].pc = IF h.called THEN "handler" ELSE "select",
                          ![l].arg = h.event]
           /\ delivered' = [delivered EXCEPT ![l] =
                               IF h.called THEN Append(@, h.event) ELSE @]
    /\ recv' = [recv EXCEPT ![l] = Append(@, event)]
    /\ UNCHANGED << options, store, watching, stopCh, closedCh, mu, activeWatchers,
                    parentDone, nCalls, call, ctxDone, fwd, res, openLog,
                    sleepLog >>

\* The handler returns, and with it handleEvent; a handler that called Stop
\* returns after that call.
HandlerReturn(l) ==
    /\ loop[l].pc = "handler"
    /\ \A d \in Calls : Active(d) => call[d].via # l
    /\ loop' = [loop EXCEPT ![l].pc = "select", ![l].arg = NoEvent,
                            ![l].snapshot = "none"]
    /\ UNCHANGED << options, store, watching, stopCh, closedCh, mu, activeWatchers,
                    parentDone, nCalls, call, ctxDone, fwd, res, openLog,
                    sleepLog, recv, delivered >>

\* The handler calls IsWatching: the call is at w.mu.RLock().
HandlerIsWatching(l) ==
    /\ loop[l].pc = "handler"
    /\ loop[l].snapshot = "none"
    /\ \A d \in Calls : Active(d) => call[d].via # l
    /\ loop' = [loop EXCEPT ![l].pc = "isWatching"]
    /\ UNCHANGED << options, store, watching, stopCh, closedCh, mu, activeWatchers,
                    parentDone, nCalls, call, ctxDone, fwd, res, openLog,
                    sleepLog, recv, delivered >>

\* IsWatching: RLock, which waits while Stop holds the mutex, and the read
\* of w.watching; the handler goes on with the answer.
IsWatching(l) ==
    /\ loop[l].pc = "isWatching"
    /\ mu = 0
    /\ loop' = [loop EXCEPT ![l].pc = "handler",
                            ![l].snapshot = IF watching THEN "true"
                                                        ELSE "false"]
    /\ UNCHANGED << options, store, watching, stopCh, closedCh, mu, activeWatchers,
                    parentDone, nCalls, call, ctxDone, fwd, res, openLog,
                    sleepLog, recv, delivered >>

\* The cluster ends the stream (hangup, server-side timeout): the result
\* channel is closed.
StreamClosed(l) ==
    /\ loop[l].pc = "select"
    /\ loop[l].sub = "open"
    /\ loop' = [loop EXCEPT ![l].sub = "closed"]
    /\ UNCHANGED << options, store, watching, stopCh, closedCh, mu, activeWatchers,
                    parentDone, nCalls, call, ctxDone, fwd, res, openLog,
                    sleepLog, recv, delivered >>

\* case event, ok := <-ch with !ok: watchCancel(), then the sleep.
ReceiveClosed(l) ==
    /\ loop[l].pc = "select"
    /\ loop[l].sub = "closed"
    /\ loop' = [loop EXCEPT ![l].pc = "closeDelay"]
    /\ UNCHANGED << options, store, watching, stopCh, closedCh, mu, activeWatchers,
                    parentDone, nCalls, call, ctxDone, fwd, res, openLog,
                    sleepLog, recv, delivered >>

\* The sleep is over: break.  The break is inside the select, so it ends
\* the select statement and the inner for takes its next iteration.
CloseDelayDone(l) ==
    /\ loop[l].pc = "closeDelay"
    /\ loop' = [loop EXCEPT ![l].pc = "select"]
    /\ UNCHANGED << options, store, watching, stopCh, closedCh, mu, activeWatchers,
                    parentDone, nCalls, call, ctxDone, fwd, res, openLog,
                    sleepLog, recv, delivered >>

(***************************************************************************)
(* ResourceStore.Upsert and ResourceStore.Delete, each under s.mu.         *)
(***************************************************************************)
Upsert(resource) ==
    /\ Len(store.log) < MaxOps
    /\ store' = [UpsertInto(store, resource) EXCEPT
                    !.log = Append(@, [op |-> "Upsert", key |-> KeyOf(resource),
                                       resource |-> resource])]
    /\ UNCHANGED << options, watching, stopCh, closedCh, mu, activeWatchers,
                    parentDone, nCalls, call, ctxDone, fwd, res, loop, openLog,
                    sleepLog, recv, delivered >>

Delete(kind, apiVersion, namespace, name) ==
    /\ Len(store.log) < MaxOps
    /\ store' = [DeleteFrom(store, kind, apiVersion, namespace, name) EXCEPT
                    !.log = Append(@, [op |-> "Delete",
                                       key |-> StoreKey(kind, apiVersion,
                                                        namespace, name),
                                       resource |->
                                           [Name |-> name,
                                            Namespace |-> namespace,
                                            Kind |-> kind,
                                            APIVersion |-> apiVersion,
                                            ResourceVersion |-> "",
                                            Data |-> ""]])]
    /\ UNCHANGED << options, watching, stopCh, closedCh, mu, activeWatchers,
                    parentDone, nCalls, call, ctxDone, fwd, res, loop, openLog,
                    sleepLog, recv, delivered >>

(***************************************************************************)
(* The event handler of cmd/tui: the handler call of a loop, from its      *)
(* entry to its return, with the store call it makes.                      *)
(***************************************************************************)
\* json.Marshal(event.Object): the text of the object the event carries.
Marshal(event) ==
    "{resourceVersion:" \o event.ResourceVersion \o "}"

\* eventHandler without its case watch.Deleted.
eventHandlerKeepsDeleted(l) ==
    /\ loop[l].pc = "handler"
    /\ \A d \in Calls : Active(d) => call[d].via # l
    /\ Len(store.log) < MaxOps
    /\ LET event == loop[l].arg
           r == [Name |-> event.Name,
                 Namespace |-> event.Namespace,
                 Kind |-> event.Resource.Kind,
                 APIVersion |-> event.Resource.APIVersion,
                 ResourceVersion |-> event.ResourceVersion,
                 Data |-> Marshal(event)]
       IN  store' =
             IF event.Type \in {Added, Modified}
             THEN [UpsertInto(store, r) EXCEPT
                     !.log = Append(@, [op |-> "Upsert", key |-> KeyOf(r),
                                        resource |-> r])]
             ELSE store
    /\ loop' = [loop EXCEPT ![l].pc = "select", ![l].arg = NoEvent,
                            ![l].snapshot = "none"]
    /\ UNCHANGED << options, watching, stopCh, closedCh, mu, activeWatchers,
                    parentDone, nCalls, call, ctxDone, fwd, res, openLog,
                    sleepLog, recv, delivered >>

\* resourceData, _ := json.Marshal(event.Object); switch event.Type { ... }
\* with store calls that return no error.
eventHandler(l) ==
    /\ loop[l].pc = "handler"
    /\ \A d \in Calls : Active(d) => call[d].via # l
    /\ Len(store.log) < MaxOps
    /\ LET event == loop[l].arg
           r == [Name |-> event.Name,
                 Namespace |-> event.Namespace,
                 Kind |-> event.Resource.Kind,
                 APIVersion |-> event.Resource.APIVersion,
                 ResourceVersion |-> event.ResourceVersion,
                 Data |-> Marshal(event)]
       IN  store' =
             IF event.Type \in {Added, Modified}
             THEN [UpsertInto(store, r) EXCEPT
                     !.log = Append(@, [op |-> "Upsert", key |-> KeyOf(r),
                                        resource |-> r])]
             ELSE IF event.Type = Deleted
             THEN [DeleteFrom(store, r.Kind, r.APIVersion, r.Namespace,
                              r.Name) EXCEPT
                     !.log = Append(@, [op |-> "Delete", key |-> KeyOf(r),
                                        resource |->
                                            [r EXCEPT !.ResourceVersion = "",
                                                      !.Data = ""]])]
             ELSE store
    /\ loop' = [loop EXCEPT ![l].pc = "select", ![l].arg = NoEvent,
                            ![l].snapshot = "none"]
    /\ UNCHANGED << options, watching, stopCh, closedCh, mu, activeWatchers,
                    parentDone, nCalls, call, ctxDone, fwd, res, openLog,
                    sleepLog, recv, delivered >>

(***************************************************************************)
(* Specifications.                                                         *)
(***************************************************************************)
StartStep ==
    \E c \in Calls :
        \/ StartRejected(c)
        \/ StartAccepted(c)
        \/ StartExplicit(c)
        \/ StartDiscover(c)
        \/ StartSpawn(c)
        \/ StartReturn(c)

ForwarderStep ==
    \E c \in Calls : FwdEnter(c) \/ FwdStop(c) \/ FwdCtx(c)

StopStep ==
    \E c \in Calls :
        StopNoop(c) \/ StopClose(c) \/ StopClean(c) \/ StopTimeout(c)

\* The steps of loop l that the loop takes by itself.
LoopRuns(l) ==
    \/ TopCancelled(l)
    \/ TopContinue(l)
    \/ BackoffDone(l)
    \/ ReceiveClosed(l)
    \/ CloseDelayDone(l)

\* The steps of loop l that the cluster decides: the answer to a Watch call.
WatchAnswers(l) ==
    OpenSucceeded(l) \/ OpenTransient(l) \/ OpenNotFound(l)

Next ==
    \/ CallStart
    \/ ClientStop
    \/ HandlerStop
    \/ CancelParent
    \/ StartStep
    \/ ForwarderStep
    \/ StopStep
    \/ \E l \in LoopIds : LoopRuns(l)
    \/ \E l \in LoopIds : WatchAnswers(l)
    \/ \E l \in LoopIds : SelectCancelled(l)
    \/ \E l \in LoopIds : \E e \in RawEvents : Receive(l, e)
    \/ \E l \in LoopIds : HandlerIsWatching(l)
    \/ \E l \in LoopIds : IsWatching(l)
    \/ \E l \in LoopIds : HandlerReturn(l)
    \/ \E l \in LoopIds : StreamClosed(l)
    \/ \E l \in LoopIds : eventHandler(l)
    \/ \E r \in StoreResources : Upsert(r)
    \/ \E k \in StoreKeys : Delete(k[1], k[2], k[3], k[4])

Spec ==
    Init /\ [][Next]_vars

(***************************************************************************)
(* One kind, watched explicitly, on a cluster whose Watch calls fail and   *)
(* whose streams end: the retry machine of one loop.                       *)
(***************************************************************************)
OneKind ==
    [Namespace |-> <<>>, ResourceTypes |-> <<DefaultResourceTypes[1]>>,
     WatchAll |-> FALSE]

StartOnce ==
    nCalls = 0 /\ CallStart

NextLoop ==
    \/ StartOnce
    \/ CancelParent
    \/ \E c \in Calls : StartAccepted(c)
    \/ \E c \in Calls : StartExplicit(c)
    \/ \E c \in Calls : StartSpawn(c)
    \/ \E c \in Calls : StartReturn(c)
    \/ \E c \in Calls : FwdEnter(c)
    \/ \E c \in Calls : FwdCtx(c)
    \/ \E l \in LoopIds : TopCancelled(l)
    \/ \E l \in LoopIds : TopContinue(l)
    \/ \E l \in LoopIds : OpenSucceeded(l)
    \/ \E l \in LoopIds : OpenTransient(l)
    \/ \E l \in LoopIds : OpenNotFound(l)
    \/ \E l \in LoopIds : BackoffDone(l)
    \/ \E l \in LoopIds : SelectCancelled(l)
    \/ \E l \in LoopIds : \E e \in QuietEvents : Receive(l, e)
    \/ \E l \in LoopIds : HandlerReturn(l)
    \/ \E l \in LoopIds : StreamClosed(l)
    \/ \E l \in LoopIds : ReceiveClosed(l)
    \/ \E l \in LoopIds : CloseDelayDone(l)

SpecLoop ==
    InitWith(OneKind) /\ [][NextLoop]_vars

(***************************************************************************)
(* The retry machine.                                                      *)
(***************************************************************************)
AllTransient(log) ==
    \A i \in 1..Len(log) : log[i] = TransientError

TransientBefore(log, i) ==
    Cardinality({j \in 1..(i - 1) : log[j] = TransientError})

\* C1: when the wait that follows the closing of the event channel ends, the
\* loop is back at the top of its retry loop, on its way to a new Watch call
\* for the same kind, and its retry counter is what it was while the stream
\* was open: zero.
C1_ReopensAfterClose ==
    [][\A l \in LoopIds :
          (loop[l].pc = "closeDelay" /\ loop'[l].pc # "closeDelay")
              => /\ loop'[l].pc = "top"
                 /\ loop'[l].resource = loop[l].resource
                 /\ loop'[l].retries = 0]_vars

\* C2: a loop all of whose Watch calls failed with a transient error makes at
\* most 6 of them, and when it has terminated without cancellation it has
\* made exactly 6: the first attempt and 5 retries.
C2_SixAttemptsThenGiveUp ==
    \A l \in LoopIds :
        AllTransient(openLog[l])
            => /\ Len(openLog[l]) <= MaxRetries + 1
               /\ (loop[l].pc = "done" /\ loop[l].why # "context canceled")
                      => Len(openLog[l]) = MaxRetries + 1

\* C3: a Watch call that fails because the resource type does not exist is
\* the last Watch call of its loop; the loop has terminated, and it has slept
\* only for the transient failures before it (not at all when the failure is
\* its first attempt).
C3_NotFoundTerminates ==
    \A l \in LoopIds :
        \A i \in 1..Len(openLog[l]) :
            IsNotFound(openLog[l][i])
                => /\ i = Len(openLog[l])
                   /\ loop[l].pc = "done"
                   /\ Len(sleepLog[l]) = TransientBefore(openLog[l], i)

\* C3 happens: a loop terminated by a missing resource type on its third
\* Watch call, and one on its first.
C3_Witness ==
    /\ \E l \in LoopIds :
          /\ loop[l].why = "not available"
          /\ openLog[l] = <<TransientError, TransientError, NotFoundError>>
          /\ sleepLog[l] = <<2, 4>>

(***************************************************************************)
(* One kind, watched explicitly and never cancelled, on a cluster whose    *)
(* Watch calls succeed, whose streams stay open and that sends every kind  *)
(* of raw event: the normalizer of one loop.                               *)
(***************************************************************************)
NextNorm ==
    \/ StartOnce
    \/ \E c \in Calls : StartAccepted(c)
    \/ \E c \in Calls : StartExplicit(c)
    \/ \E c \in Calls : StartSpawn(c)
    \/ \E c \in Calls : StartReturn(c)
    \/ \E c \in Calls : FwdEnter(c)
    \/ \E l \in LoopIds : TopContinue(l)
    \/ \E l \in LoopIds : OpenSucceeded(l)
    \/ \E l \in LoopIds : \E e \in RawEvents : Receive(l, e)
    \/ \E l \in LoopIds : HandlerReturn(l)

SpecNorm ==
    InitWith(OneKind) /\ [][NextNorm]_vars

\* The positions in a log of raw events of the events of the given types
\* whose payload names the identity (namespace, name).
EventsOf(log, namespace, name, types) ==
    { i \in 1..Len(log) : /\ log[i].object = "Unstructured"
                          /\ log[i].namespace = namespace
                          /\ log[i].name = name
                          /\ log[i].type \in types }

Latest(S) ==
    CHOOSE i \in S : \A j \in S : j <= i

\* The cache of loop l for an identity.
Cached(l, namespace, name) ==
    loop[l].resourceVersions[ResourceKey(namespace, name)]

\* The cache agrees with the most recent event among those of `types`.
CacheFollows(l, namespace, name, types) ==
    LET S == EventsOf(recv[l], namespace, name, types)
    IN  S # {} =>
            IF recv[l][Latest(S)].type = Deleted
            THEN Cached(l, namespace, name) = NoEntry
            ELSE Cached(l, namespace, name) = recv[l][Latest(S)].resourceVersion

\* C7, as claimed: after any sequence of events, the cache of an identity is
\* the token of its most recent event when that event is not Deleted, and it
\* has no entry when that event is Deleted.
C7_CacheIsLatestNonDeleted ==
    \A l \in LoopIds : \A ns \in Namespaces, n \in Names :
        CacheFollows(l, ns, n, EventTypes)

\* C7, amended: after any sequence of events, the cache of an identity is the
\* token of its most recent Added or Modified event when no Deleted event of
\* the identity came after it, and it has no entry when the most recent of
\* its Added, Modified and Deleted events is Deleted.
C7_CacheIsLatestStored ==
    \A l \in LoopIds : \A ns \in Namespaces, n \in Names :
        CacheFollows(l, ns, n, {Added, Modified, Deleted})

\* C7 happens: an Error event that names an identity came after its Added.
C7_Witness ==
    \E l \in LoopIds : \E ns \in Namespaces, n \in Names :
        /\ Len(recv[l]) = 2
        /\ recv[l][1] = Unstructured(Added, ns, n, "1")
        /\ recv[l][2] = Unstructured(Error, ns, n, "2")
        /\ Cached(l, ns, n) = "1"

\* The most recent event among those of `types` is Added or Modified.
LatestStores(l, namespace, name, types) ==
    LET S == EventsOf(recv[l], namespace, name, types)
    IN  S # {} /\ recv[l][Latest(S)].type \in {Added, Modified}

\* C8, as claimed: the cache has an entry for an identity iff the most recent
\* event the loop observed for it was Added or Modified.
C8_EntryIffLatestStores ==
    \A l \in LoopIds : \A ns \in Namespaces, n \in Names :
        Cached(l, ns, n) # NoEntry <=> LatestStores(l, ns, n, EventTypes)

\* C8, amended: the cache has an entry for an identity iff the most recent of
\* the Added, Modified and Deleted events the loop observed for it was Added
\* or Modified; there is none after a Deleted and for an identity of which no
\* such event was observed.
C8_EntryIffLatestChangeStores ==
    \A l \in LoopIds : \A ns \in Namespaces, n \in Names :
        Cached(l, ns, n) # NoEntry
            <=> LatestStores(l, ns, n, {Added, Modified, Deleted})

\* C8 happens: an entry was removed by a Deleted while another identity, of
\* which only an Error event was observed, has none.
C8_Witness ==
    \E l \in LoopIds :
        /\ recv[l] = << Unstructured(Added, <<>>, <<"a">>, "1"),
                        Unstructured(Deleted, <<>>, <<"a">>, "2") >>
        /\ Cached(l, <<>>, <<"a">>) = NoEntry
        /\ Cached(l, <<"n">>, <<"a">>) = NoEntry

\* The positions in the events given to the handler of the events of the
\* given types for the identity.
DeliveredOf(log, namespace, name, types) ==
    { i \in 1..Len(log) : /\ log[i].Namespace = namespace
                          /\ log[i].Name = name
                          /\ log[i].Type \in types }

\* C9: a Modified event given to the handler carries as previous token the
\* token of the closest Added or Modified event given before it for the same
\* identity, when there is one and no Deleted of the identity lies between.
C9_PreviousIsLastStored ==
    \A l \in LoopIds : \A j \in 1..Len(delivered[l]) :
        LET ev == delivered[l][j]
            before == { i \in DeliveredOf(delivered[l], ev.Namespace, ev.Name,
                                          {Added, Modified, Deleted}) : i < j }
        IN  (/\ ev.Type = Modified
             /\ before # {}
             /\ delivered[l][Latest(before)].Type # Deleted)
                => ev.PreviousResourceVersion
                       = delivered[l][Latest(before)].ResourceVersion

\* C9 happens: a Modified followed the Added of its identity.
C9_Witness ==
    \E l \in LoopIds :
        /\ Len(delivered[l]) = 2
        /\ delivered[l][1].Type = Added
        /\ delivered[l][1].ResourceVersion = "1"
        /\ delivered[l][2].Type = Modified
        /\ delivered[l][2].Name = delivered[l][1].Name
        /\ delivered[l][2].Namespace = delivered[l][1].Namespace
        /\ delivered[l][2].ResourceVersion = "2"
        /\ delivered[l][2].PreviousResourceVersion = "1"

\* C10: a Modified event for an identity of which the loop observed no event,
\* or of which the last observed event was Deleted, is given to the handler
\* with an empty previous token, and once the loop has processed it the cache
\* holds its token for the identity.
C10_FreshModifiedHasNoPrevious ==
    \A l \in LoopIds : \A j \in 1..Len(delivered[l]) :
        LET ev == delivered[l][j]
            before == { i \in DeliveredOf(delivered[l], ev.Namespace, ev.Name,
                                          EventTypes) : i < j }
        IN  (/\ ev.Type = Modified
             /\ before = {} \/ delivered[l][Latest(before)].Type = Deleted)
                => /\ ev.PreviousResourceVersion = ""
                   /\ j = Len(delivered[l])
                          => Cached(l, ev.Namespace, ev.Name) = ev.ResourceVersion

\* C10 happens: a Modified followed the Deleted of its identity.
C10_Witness ==
    \E l \in LoopIds :
        /\ Len(delivered[l]) = 2
        /\ delivered[l][1].Type = Deleted
        /\ delivered[l][2].Type = Modified
        /\ delivered[l][2].Name = delivered[l][1].Name
        /\ delivered[l][2].Namespace = delivered[l][1].Namespace
        /\ delivered[l][2].ResourceVersion = "2"
        /\ delivered[l][2].PreviousResourceVersion = ""
        /\ Cached(l, delivered[l][2].Namespace, delivered[l][2].Name) = "2"

(***************************************************************************)
(* One kind, watched explicitly, on a healthy cluster, with clients and    *)
(* handlers that call Start, Stop and IsWatching: the supervisor.          *)
(***************************************************************************)
\* The client is one task: it makes a call when its last call has returned.
ClientIdle ==
    \A c \in Calls : call[c].via = NoLoop => ~Active(c)

NextSup ==
    \/ ClientIdle /\ CallStart
    \/ ClientIdle /\ ClientStop
    \/ HandlerStop
    \/ \E c \in Calls : StartRejected(c)
    \/ \E c \in Calls : StartAccepted(c)
    \/ \E c \in Calls : StartExplicit(c)
    \/ \E c \in Calls : StartSpawn(c)
    \/ \E c \in Calls : StartReturn(c)
    \/ \E c \in Calls : FwdEnter(c)
    \/ \E c \in Calls : FwdStop(c)
    \/ \E c \in Calls : StopNoop(c)
    \/ \E c \in Calls : StopClose(c)
    \/ \E c \in Calls : StopClean(c)
    \/ \E c \in Calls : StopTimeout(c)
    \/ \E l \in LoopIds : TopCancelled(l)
    \/ \E l \in LoopIds : TopContinue(l)
    \/ \E l \in LoopIds : OpenSucceeded(l)
    \/ \E l \in LoopIds : SelectCancelled(l)
    \/ \E l \in LoopIds : \E e \in QuietEvents : Receive(l, e)
    \/ \E l \in LoopIds : HandlerIsWatching(l)
    \/ \E l \in LoopIds : IsWatching(l)
    \/ \E l \in LoopIds : HandlerReturn(l)

SpecSup ==
    InitWith(OneKind) /\ [][NextSup]_vars

\* The steps of Start call c, of its stop-forwarding task, and of Stop call c.
StartRuns(c) ==
    \/ StartRejected(c)
    \/ StartAccepted(c)
    \/ StartExplicit(c)
    \/ StartSpawn(c)
    \/ StartReturn(c)

ForwarderRuns(c) ==
    FwdEnter(c) \/ FwdStop(c)

StopRuns(c) ==
    StopNoop(c) \/ StopClose(c) \/ StopClean(c) \/ StopTimeout(c)

\* Every task runs, Watch calls are answered, and handlers return: a select
\* with a ready case takes one, and no sleep or call lasts for ever.
FairSup ==
    /\ InitWith(OneKind) /\ [][NextSup]_vars
    /\ \A c \in Calls : WF_vars(StartRuns(c))
    /\ \A c \in Calls : WF_vars(ForwarderRuns(c))
    /\ \A c \in Calls : WF_vars(StopRuns(c))
    /\ \A l \in LoopIds : WF_vars(TopCancelled(l) \/ TopContinue(l))
    /\ \A l \in LoopIds : WF_vars(OpenSucceeded(l))
    /\ \A l \in LoopIds : WF_vars(SelectCancelled(l))
    /\ \A l \in LoopIds : WF_vars(IsWatching(l) \/ HandlerReturn(l))

\* Only the Stop calls are sure to run: a loop may stay where it is for ever.
FairStop ==
    /\ InitWith(OneKind) /\ [][NextSup]_vars
    /\ \A c \in Calls : WF_vars(StopRuns(c))

\* A Start call before c returned nil, and no Stop call was running when it
\* was made or has been made since.
PreviousStartStands(c) ==
    \E c0 \in Calls :
        /\ c0 # c
        /\ call[c0].op = "Start"
        /\ call[c0].ret = "nil"
        /\ ~call[c0].stopSince

Running(l) ==
    loop[l].pc \notin {"unspawned", "done"}

\* C4: a Start call made when an earlier Start has succeeded and no Stop has
\* been called since returns "watcher is already running" at its check, and
\* that step leaves the running flag, the stop channel, the closed channels,
\* the cancellation state, the forwarding tasks, the loop counter and every
\* loop as they were; the rejected call never spawns a loop or a forwarder.
C4_SecondStartRejected ==
    /\ [][\A c \in Calls :
            ( /\ call[c].op = "Start"
              /\ call[c].pc = "check"
              /\ call'[c].pc # "check"
              /\ PreviousStartStands(c) )
            => /\ call'[c].pc = "returned"
               /\ call'[c].ret = "watcher is already running"
               /\ UNCHANGED << watching, stopCh, closedCh, ctxDone, fwd, res,
                               loop, activeWatchers >>]_vars
    /\ [](\A c \in Calls :
            call[c].ret = "watcher is already running"
            => /\ fwd[c] = NoForwarder
               /\ \A i \in Slots : loop[<<c, i>>].pc = "unspawned")

\* A second Start was rejected while the loop of the first run was reading
\* its subscription, uncancelled.
C4_Witness ==
    \E c0 \in Calls : \E c \in Calls :
        /\ call[c0].op = "Start" /\ call[c0].ret = "nil"
        /\ ~call[c0].stopSince
        /\ call[c].ret = "watcher is already running"
        /\ loop[<<c0, 1>>].pc = "select"
        /\ ~ctxDone[c0]
        /\ watching /\ stopCh = c0

\* Every loop of run c has returned.
RunOver(c) ==
    \A i \in Slots : ~Running(<<c, i>>)

\* C5: when Stop is called after Start call c has returned nil, the context
\* of run c is eventually cancelled and every loop of run c eventually
\* returns, the tasks being scheduled and handlers, Watch calls and sleeps
\* returning.
C5_StopTerminatesLoops ==
    \A d \in Calls : \A c \in Calls :
        (call[d].op = "Stop" /\ c \in call[d].after)
            ~> (ctxDone[c] /\ RunOver(c))

StopOutcomes ==
    {"not watching", "clean", "timed out"}

\* C6: every Stop call returns, whatever the loops do; it returns through
\* one of its three return paths with the running flag false and the mutex
\* released, and the channel it closes was open.
C6_StopAlwaysReturns ==
    /\ \A d \in Calls : (call[d].op = "Stop") ~> (call[d].pc = "returned")
    /\ [][\A d \in Calls :
            ( /\ call[d].op = "Stop"
              /\ call[d].pc # "returned"
              /\ call'[d].pc = "returned" )
            => /\ ~watching'
               /\ mu' = 0
               /\ call'[d].ret \in StopOutcomes]_vars
    /\ [](watching => stopCh \notin closedCh)

\* A Stop call made by a handler has returned through the timer: the loop
\* that runs the handler could not exit during the wait.
C6_Witness ==
    \E d \in Calls :
        /\ call[d].op = "Stop"
        /\ call[d].via # NoLoop
        /\ call[d].ret = "timed out"
        /\ Running(call[d].via)
        /\ ~watching

(***************************************************************************)
(* Error notifications.                                                    *)
(***************************************************************************)
ErrorsReceived(l) ==
    SelectSeq(recv[l], LAMBDA e : e.type = Error)

ErrorsDelivered(l) ==
    SelectSeq(delivered[l], LAMBDA e : e.Type = Error)

\* C11: every Error notification a loop took from its subscription was
\* handed to the handler once, in order, as a ResourceEvent of type Error
\* whose Error field holds the message the server sent, and the loop is back
\* at its select or in the handler, on the same subscription.
C11_ErrorEventsDelivered ==
    \A l \in LoopIds :
        /\ Len(ErrorsDelivered(l)) = Len(ErrorsReceived(l))
        /\ \A i \in 1..Len(ErrorsDelivered(l)) :
              i <= Len(ErrorsReceived(l))
              => ErrorsDelivered(l)[i].Error
                     = "error event: " \o ErrorsReceived(l)[i].message
        /\ Len(recv[l]) > 0 => loop[l].pc \in {"select", "handler"}

(***************************************************************************)
(* One Start call on a supervisor built with any of the Options: the       *)
(* resolution of the kinds to watch and the spawning of their loops.       *)
(***************************************************************************)
NextResolve ==
    \/ StartOnce
    \/ \E c \in Calls : StartAccepted(c)
    \/ \E c \in Calls : StartExplicit(c)
    \/ \E c \in Calls : StartDiscover(c)
    \/ \E c \in Calls : StartSpawn(c)
    \/ \E c \in Calls : StartReturn(c)
    \/ \E c \in Calls : FwdEnter(c)

SpecResolve ==
    Init /\ [][NextResolve]_vars

\* The resources of the loops that Start call c has spawned, in slot order.
Spawned(c) ==
    [i \in 1..Cardinality({s \in Slots : loop[<<c, s>>].pc # "unspawned"})
        |-> loop[<<c, i>>].resource]

FiveDefaultKinds ==
    << <<"P","o","d">>, <<"D","e","p","l","o","y","m","e","n","t">>,
       <<"S","e","r","v","i","c","e">>, <<"C","o","n","f","i","g","M","a","p">>,
       <<"N","a","m","e","s","p","a","c","e">> >>

\* C12: when Start has returned nil on a supervisor built with Options o,
\* the loops it spawned are those of o.ResourceTypes if that list is not
\* empty (whatever o.WatchAll), else those of the discovered resources if
\* o.WatchAll is set, else those of the five default kinds.
C12_ResolutionPriority ==
    \A o \in OptionSet : \A c \in Calls :
        (options = NewWatcher(o) /\ call[c].op = "Start" /\ call[c].ret = "nil")
        => IF Len(o.ResourceTypes) > 0
           THEN Spawned(c) = o.ResourceTypes
           ELSE IF o.WatchAll
           THEN Spawned(c)
                  = discoverAllResources(call[c].discovered).resources
           ELSE [i \in 1..Len(Spawned(c)) |-> Spawned(c)[i].Kind]
                  = FiveDefaultKinds

(***************************************************************************)
(* Discovery.                                                              *)
(***************************************************************************)
\* The positions <<list, resource>> of a discovery answer.
Advertised(answer) ==
    { p \in (1..Len(answer.lists)) \X (1..(MaxCatalog + 2)) :
        p[2] <= Len(answer.lists[p[1]].APIResources) }

HasWatchVerb(r) ==
    \E k \in 1..Len(r.Verbs) : r.Verbs[k] = "watch"

IsSubresource(r) ==
    \E k \in 1..Len(r.Name) : r.Name[k] = "/"

\* The positions whose resource can be watched and is no subresource.
Watchable(answer) ==
    { p \in Advertised(answer) :
        LET r == answer.lists[p[1]].APIResources[p[2]]
        IN  HasWatchVerb(r) /\ ~IsSubresource(r) }

DescriptorAt(answer, p) ==
    LET r == answer.lists[p[1]].APIResources[p[2]]
    IN  [Kind |-> r.Kind, APIVersion |-> answer.lists[p[1]].GroupVersion,
         Namespaced |-> r.Namespaced]

TripleAt(answer, p) ==
    LET r == answer.lists[p[1]].APIResources[p[2]]
    IN  << answer.lists[p[1]].GroupVersion, r.Kind, r.Name >>

\* C18: in watch-all mode, when some groups could not be listed Start does
\* not return the discovery error: it returns nil with one loop for each
\* resource discoverAllResources returned, the watchable resources of the
\* listed groups among them; when the catalog could not be read at all,
\* Start returns the discovery error and has spawned no loop.
C18_PartialDiscoveryGoesOn ==
    \A c \in Calls :
        LET a == call[c].discovered
        IN  /\ (a.err = "group discovery failed")
               => /\ call[c].ret # "error discovering resources"
                  /\ call[c].pc = "returned"
                     => /\ call[c].ret = "nil"
                        /\ Spawned(c) = res[c]
                        /\ \A p \in Watchable(a) :
                              \E k \in 1..Len(Spawned(c)) :
                                  Spawned(c)[k] = DescriptorAt(a, p)
            /\ (a.err = "failed")
               => /\ call[c].pc = "returned"
                  /\ call[c].ret = "error discovering resources"
                  /\ \A s \in Slots : loop[<<c, s>>].pc = "unspawned"

\* Start has returned nil after a discovery that missed a group, with the
\* loops of the two watchable core resources.
C18_Witness ==
    \E c \in Calls :
        /\ call[c].discovered.err = "group discovery failed"
        /\ call[c].ret = "nil"
        /\ Len(Spawned(c)) = 2


\* C19: what discoverAllResources returned for a catalog holds the
\* descriptors of exactly the advertised resources that have the verb watch
\* and no "/" in their name, one for each distinct triple of group-version,
\* kind and resource name.
C19_DiscoveryFilterAndDedup ==
    \A c \in Calls :
        LET a == call[c].discovered
        IN  (a.err \in {"none", "group discovery failed"})
            => /\ { res[c][k] : k \in 1..Len(res[c]) }
                     = { DescriptorAt(a, p) : p \in Watchable(a) }
               /\ Len(res[c])
                     = Cardinality({ TripleAt(a, p) : p \in Watchable(a) })

\* The catalog advertised pods twice, a subresource of pods, a resource that
\* cannot be watched and deployments: two descriptors were returned.
C19_Witness ==
    \E c \in Calls :
        /\ call[c].discovered = [lists |-> <<CoreList, AppsList>>,
                                 err |-> "none"]
        /\ Len(res[c]) = 2

(***************************************************************************)
(* Two kinds, watched explicitly, on a cluster whose Watch calls may fail: *)
(* two loops side by side.                                                 *)
(***************************************************************************)
TwoKinds ==
    [Namespace |-> <<>>, ResourceTypes |-> <<DefaultResourceTypes[1], Widget>>,
     WatchAll |-> FALSE]

NextIso ==
    \/ StartOnce
    \/ \E c \in Calls : StartAccepted(c)
    \/ \E c \in Calls : StartExplicit(c)
    \/ \E c \in Calls : StartSpawn(c)
    \/ \E c \in Calls : StartReturn(c)
    \/ \E c \in Calls : FwdEnter(c)
    \/ \E l \in LoopIds : TopContinue(l)
    \/ \E l \in LoopIds : OpenSucceeded(l)
    \/ \E l \in LoopIds : OpenTransient(l)
    \/ \E l \in LoopIds : OpenNotFound(l)
    \/ \E l \in LoopIds : BackoffDone(l)
    \/ \E l \in LoopIds : \E e \in QuietEvents : Receive(l, e)
    \/ \E l \in LoopIds : HandlerReturn(l)

SpecIso ==
    InitWith(TwoKinds) /\ [][NextIso]_vars

\* Only the Start call is sure to run: loops and handlers may stay where
\* they are for ever.
FairStart ==
    /\ InitWith(TwoKinds) /\ [][NextIso]_vars
    /\ \A c \in Calls : WF_vars(StartRuns(c))

Failures ==
    {"giving up", "not available"}

\* C13: the step in which a loop returns because it gave up or because its
\* resource type does not exist leaves every other loop as it was (its
\* position, subscription, retry counter and resourceVersions, and what it
\* has opened, received and delivered), cancels no context and leaves the
\* running flag and the stop channel alone; and after it a loop that is
\* reading an open subscription can still take an event.
C13_FailureIsIsolated ==
    /\ [][\A l \in LoopIds : \A m \in LoopIds :
            ( /\ l # m
              /\ loop[l].pc # "done"
              /\ loop'[l].pc = "done"
              /\ loop'[l].why \in Failures )
            => /\ loop'[m] = loop[m]
               /\ openLog'[m] = openLog[m]
               /\ sleepLog'[m] = sleepLog[m]
               /\ recv'[m] = recv[m]
               /\ delivered'[m] = delivered[m]
               /\ UNCHANGED << ctxDone, parentDone, watching, stopCh,
                               closedCh, fwd >>]_vars
    /\ [](\A l \in LoopIds : \A m \in LoopIds :
            ( /\ l # m
              /\ loop[l].pc = "done" /\ loop[l].why \in Failures
              /\ loop[m].pc = "select" /\ loop[m].sub = "open"
              /\ Len(recv[m]) < MaxEvents )
            => ENABLED (\E e \in QuietEvents : Receive(m, e)))

\* One loop has given up after its failed Watch calls while the other is in
\* the handler with an event, its context not cancelled.
C13_Witness ==
    \E l \in LoopIds : \E m \in LoopIds :
        /\ l # m
        /\ loop[l].pc = "done" /\ loop[l].why = "giving up"
        /\ loop[m].pc = "handler"
        /\ Len(delivered[m]) = MaxEvents
        /\ ~CtxDone(m[1])

\* C20: every Start call returns whatever the loops and the handlers do,
\* no step of Start after its check waits for anything, and when it has
\* returned nil it has spawned one loop for each entry of resourcesToWatch,
\* in order.
C20_StartSpawnsAndReturns ==
    /\ \A c \in Calls : (call[c].op = "Start") ~> (call[c].pc = "returned")
    /\ [](\A c \in Calls :
            (call[c].op = "Start" /\ call[c].pc \in {"resolve", "spawn"})
            => ENABLED StartRuns(c))
    /\ [](\A c \in Calls :
            call[c].ret = "nil"
            => /\ Spawned(c) = res[c]
               /\ activeWatchers + Cardinality({ s \in Slots :
                                      loop[<<c, s>>].pc = "done" })
                     = Len(res[c]))

\* Start has returned nil with its two loops spawned and none returned: one
\* is inside a handler call, the other has not run yet.
C20_Witness ==
    \E c \in Calls :
        /\ call[c].ret = "nil"
        /\ Len(res[c]) = 2
        /\ loop[<<c, 1>>].pc = "handler"
        /\ loop[<<c, 2>>].pc = "top"
        /\ activeWatchers = 2

(***************************************************************************)
(* Order and synchrony of the handler calls.                               *)
(***************************************************************************)
ReceivedFor(l, namespace, name) ==
    SelectSeq(recv[l], LAMBDA e : e.namespace = namespace /\ e.name = name)

DeliveredFor(l, namespace, name) ==
    SelectSeq(delivered[l],
              LAMBDA e : e.Namespace = namespace /\ e.Name = name)

\* Event d the handler was called with is raw event e.
Delivers(d, e) ==
    /\ d.Type = e.type
    /\ d.Namespace = e.namespace
    /\ d.Name = e.name
    /\ d.ResourceVersion = e.resourceVersion

\* C14: for every loop, the events the handler was called with are, in the
\* same order and each once, the events taken from the subscription that
\* name an object; so they are for every identity (namespace, name).
C14_DeliveredInReceivedOrder ==
    \A l \in LoopIds :
        /\ LET r == SelectSeq(recv[l], LAMBDA e : e.name \in Names)
           IN  /\ Len(delivered[l]) = Len(r)
               /\ \A i \in 1..Len(r) : Delivers(delivered[l][i], r[i])
        /\ \A namespace \in Namespaces : \A name \in Names :
              LET r == ReceivedFor(l, namespace, name)
                  d == DeliveredFor(l, namespace, name)
              IN  /\ Len(d) = Len(r)
                  /\ \A i \in 1..Len(r) : Delivers(d[i], r[i])

\* Two different events of one identity were received and delivered.
C14_Witness ==
    \E l \in LoopIds : \E namespace \in Namespaces : \E name \in Names :
        /\ Len(DeliveredFor(l, namespace, name)) = 2
        /\ DeliveredFor(l, namespace, name)[1].Type = Added
        /\ DeliveredFor(l, namespace, name)[2].Type = Deleted

\* C15: while a loop is inside a handler call it takes no event from its
\* subscription, calls no handler, keeps its resourceVersions and does not
\* return; and every event it has taken that names an object has been
\* handed to the handler already: none is kept for later.
C15_HandlerIsSynchronous ==
    /\ [][\A l \in LoopIds :
            loop[l].pc \in {"handler", "isWatching"}
            => /\ recv'[l] = recv[l]
               /\ delivered'[l] = delivered[l]
               /\ loop'[l].resourceVersions = loop[l].resourceVersions
               /\ loop'[l].pc \in {"handler", "isWatching", "select"}]_vars
    /\ [](\A l \in LoopIds :
            Len(delivered[l])
              = Cardinality({ i \in 1..Len(recv[l]) :
                                recv[l][i].object = "Unstructured" }))

\* A loop is inside a handler call while its context is cancelled already.
C15_Witness ==
    \E l \in LoopIds :
        /\ loop[l].pc = "handler"
        /\ CtxDone(l[1])
        /\ Len(recv[l]) = 1

(***************************************************************************)
(* One kind, watched explicitly, and clients that call Start at the same   *)
(* time; no Stop call.                                                     *)
(***************************************************************************)
NextRace ==
    \/ CallStart
    \/ \E c \in Calls : StartRejected(c)
    \/ \E c \in Calls : StartAccepted(c)
    \/ \E c \in Calls : StartExplicit(c)
    \/ \E c \in Calls : StartSpawn(c)
    \/ \E c \in Calls : StartReturn(c)
    \/ \E c \in Calls : FwdEnter(c)
    \/ \E l \in LoopIds : TopContinue(l)
    \/ \E l \in LoopIds : OpenSucceeded(l)

SpecRace ==
    InitWith(OneKind) /\ [][NextRace]_vars

\* Start call c has passed the already-running check.
Passed(c) ==
    /\ call[c].op = "Start"
    /\ \/ call[c].pc \in {"resolve", "spawn"}
       \/ call[c].ret \in {"nil", "error discovering resources"}

\* C16 as stated: the check and the setting of the flag are separate, so
\* that when a Start call passes the check while another Start call is at
\* the check, the flag is still unset after that step and the other call
\* can pass the check as well.
C16_CheckAndSetNotAtomic ==
    [][\A c1 \in Calls : \A c2 \in Calls :
          ( /\ c1 # c2
            /\ call[c1].op = "Start" /\ call[c1].pc = "check"
            /\ call[c2].op = "Start" /\ call[c2].pc = "check"
            /\ call'[c1].pc = "resolve" )
          => ~watching']_vars

\* C16 as the code has it: the check and the setting of the flag are one
\* step under w.mu, so that with no Stop call at most one Start call passes
\* the check; the others return "watcher is already running" and spawn no
\* loop, and loops are spawned once.
C16_StartCheckIsAtomic ==
    /\ [][\A c \in Calls :
            (call[c].op = "Start" /\ call[c].pc = "check"
               /\ call'[c].pc = "resolve")
            => (~watching /\ watching')]_vars
    /\ [](Cardinality({ c \in Calls : Passed(c) }) <= 1)
    /\ [](\A c \in Calls :
            (call[c].op = "Start" /\ call[c].pc = "returned" /\ ~Passed(c))
            => /\ call[c].ret = "watcher is already running"
               /\ \A s \in Slots : loop[<<c, s>>].pc = "unspawned")
    /\ [](activeWatchers <= Len(OneKind.ResourceTypes))

\* Two Start calls were at the check together: the one made later passed
\* it and returned nil, the one made first was rejected.
C16_Witness ==
    \E c1 \in Calls : \E c2 \in Calls :
        /\ c2 < c1
        /\ call[c1].ret = "nil"
        /\ call[c2].ret = "watcher is already running"
        /\ activeWatchers = 1

\* C17: a Stop call that finds the supervisor not running returns at once:
\* the step leaves the running flag, the stop channel, the closed channels,
\* the mutex, the loop counter, the contexts, the forwarding tasks and the
\* loops as they were, and the call never waits.
C17_StopWhenNotRunningIsNoop ==
    [][\A d \in Calls :
          ( /\ call[d].op = "Stop"
            /\ call[d].pc = "lock"
            /\ call'[d].pc # "lock"
            /\ ~watching )
          => /\ call'[d].pc = "returned"
             /\ call'[d].ret = "not watching"
             /\ UNCHANGED << watching, stopCh, closedCh, mu, activeWatchers,
                             ctxDone, fwd, res, loop >>]_vars

\* A Stop call has returned as a no-op after an earlier Stop call had
\* stopped the supervisor.
C17_Witness ==
    \E d0 \in Calls : \E d \in Calls :
        /\ d0 < d
        /\ call[d0].op = "Stop" /\ call[d0].ret \in {"clean", "timed out"}
        /\ call[d].op = "Stop" /\ call[d].ret = "not watching"
        /\ ~watching

(***************************************************************************)
(* The store alone: any calls of Upsert and Delete, up to MaxOps.          *)
(***************************************************************************)
NextStore ==
    \/ \E r \in StoreResources : Upsert(r)
    \/ \E k \in StoreKeys : Delete(k[1], k[2], k[3], k[4])

SpecStore ==
    InitWith(OneKind) /\ [][NextStore]_vars

\* The calls made on the store for key k, as positions of the log.
CallsOn(k) ==
    { i \in 1..Len(store.log) : store.log[i].key = k }

RowsOf(k) ==
    { row \in store.rows : KeyOf(row) = k }

\* C22: in every state of the store, a second Upsert of the same Resource
\* and a second Delete of the same key leave the table as the first did;
\* there is at most one row for a key; and a key has a row exactly when
\* the last call made for it was an Upsert, the row then holding the
\* resource version and the data of that Upsert.
C22_StoreIsIdempotentAndKeyed ==
    /\ \A r \in StoreResources :
          UpsertInto(UpsertInto(store, r), r).rows = UpsertInto(store, r).rows
    /\ \A k \in StoreKeys :
          DeleteFrom(DeleteFrom(store, k[1], k[2], k[3], k[4]),
                     k[1], k[2], k[3], k[4]).rows
            = DeleteFrom(store, k[1], k[2], k[3], k[4]).rows
    /\ \A k \in StoreKeys :
          /\ Cardinality(RowsOf(k)) <= 1
          /\ IF CallsOn(k) = {}
             THEN RowsOf(k) = {}
             ELSE LET last == store.log[CHOOSE i \in CallsOn(k) :
                                          \A j \in CallsOn(k) : j <= i]
                  IN  IF last.op = "Delete"
                      THEN RowsOf(k) = {}
                      ELSE \E row \in RowsOf(k) :
                              /\ row.ResourceVersion
                                   = last.resource.ResourceVersion
                              /\ row.Data = last.resource.Data

\* Two Upserts with different resource versions were made for one key, and
\* the table holds the one row of that key.
C22_Witness ==
    /\ Len(store.log) >= 2
    /\ store.log[1].op = "Upsert" /\ store.log[2].op = "Upsert"
    /\ store.log[1].key = store.log[2].key
    /\ store.log[1].resource.ResourceVersion
         # store.log[2].resource.ResourceVersion
    /\ Cardinality(store.rows) = 1

(***************************************************************************)
(* The subscription state of a loop, read from where the loop stands.      *)
(***************************************************************************)
SubscriptionState(l) ==
    IF loop[l].pc = "unspawned" THEN "None"
    ELSE IF loop[l].pc = "done" THEN "Terminated"
    ELSE IF loop[l].sub = "open" THEN "Watching"
    ELSE IF \/ loop[l].sub = "closed"
            \/ loop[l].pc \in {"backoff", "closeDelay"}
            \/ loop[l].retries > 0
         THEN "Retrying"
    ELSE "Created"

\* C21: a loop's subscription state follows the machine Created, Watching,
\* Retrying, Terminated.  A step brings a loop into Watching only by a Watch
\* call that succeeded; into Retrying only by a Watch call that failed or by
\* the closing of its open stream; and from Terminated nowhere: a terminated
\* loop stays terminated, makes no Watch call, calls no handler and leaves
\* its resourceVersions as they are.
C21_SubscriptionStateMachine ==
    [][\A l \in LoopIds :
          /\ (SubscriptionState(l) # "Watching"
                /\ SubscriptionState(l)' = "Watching")
                => /\ openLog'[l] = Append(openLog[l], "ok")
                   /\ SubscriptionState(l) \in {"Created", "Retrying"}
          /\ (SubscriptionState(l) # "Retrying"
                /\ SubscriptionState(l)' = "Retrying")
                => \/ /\ Len(openLog'[l]) = Len(openLog[l]) + 1
                      /\ openLog'[l][Len(openLog'[l])] # "ok"
                      /\ SubscriptionState(l) = "Created"
                   \/ /\ SubscriptionState(l) = "Watching"
                      /\ loop'[l].sub = "closed"
                      /\ openLog'[l] = openLog[l]
          /\ SubscriptionState(l)' = "Created"
                => SubscriptionState(l) \in {"None", "Created"}
          /\ SubscriptionState(l) = "Terminated"
                => /\ SubscriptionState(l)' = "Terminated"
                   /\ openLog'[l] = openLog[l]
                   /\ delivered'[l] = delivered[l]
                   /\ recv'[l] = recv[l]
                   /\ loop'[l].resourceVersions = loop[l].resourceVersions
      ]_vars

\* A loop went through all of the machine: a failed Watch call, a successful
\* one, an event handed to the handler, the end of the stream, and the
\* cancellation that terminated it.
C21_Witness ==
    \E l \in LoopIds :
        /\ SubscriptionState(l) = "Terminated"
        /\ openLog[l] = <<TransientError, "ok">>
        /\ Len(delivered[l]) >= 1
        /\ loop[l].why = "context canceled"
        /\ loop[l].resourceVersions # EmptyVersions

(***************************************************************************)
(* The mapper: one resource type given explicitly, its Kind and APIVersion *)
(* drawn from the inputs below, and Start up to the spawn of its loop,     *)
(* where startResourceWatcher computes the GroupVersionResource.           *)
(***************************************************************************)
KindInputs ==
    { kindToResource[i][1] : i \in 1..Len(kindToResource) }
      \cup { <<"W","i","d","g","e","t">>,
             <<"M","y","K","i","n","d">>,
             <<"p","o","d">>,
             <<"P","o","d","s">>,
             <<"P","o","l","i","c","y">>,
             <<"X">>,
             <<"9","k">>,
             <<>> }

APIVersionInputs ==
    { V1, AppsV1,
      <<"e","x","/","v","1">>,
      <<"v","2">>,
      <<"V","1">>,
      <<"a","/","b","/","c">>,
      <<"/","v","1">>,
      <<"v","1","/">>,
      <<"/">>,
      <<>> }

MapperOptions ==
    { [Namespace |-> ns, ResourceTypes |-> <<ResourceToWatch(k, a, nsd)>>,
       WatchAll |-> FALSE] :
        ns \in { <<>>, <<"n">> }, k \in KindInputs, a \in APIVersionInputs,
        nsd \in BOOLEAN }

NextMapper ==
    \/ StartOnce
    \/ \E c \in Calls : StartAccepted(c)
    \/ \E c \in Calls : StartExplicit(c)
    \/ \E c \in Calls : StartSpawn(c)
    \/ \E c \in Calls : StartReturn(c)
    \/ \E c \in Calls : FwdEnter(c)

SpecMapper ==
    (\E o \in MapperOptions : InitWith(o)) /\ [][NextMapper]_vars

WellKnownKinds ==
    { <<"P","o","d">>, <<"D","e","p","l","o","y","m","e","n","t">>,
      <<"S","e","r","v","i","c","e">>, <<"C","o","n","f","i","g","M","a","p">>,
      <<"S","e","c","r","e","t">>, <<"N","a","m","e","s","p","a","c","e">>,
      <<"N","o","d","e">>,
      <<"P","e","r","s","i","s","t","e","n","t","V","o","l","u","m","e">>,
      <<"P","e","r","s","i","s","t","e","n","t","V","o","l","u","m","e",
        "C","l","a","i","m">>,
      <<"I","n","g","r","e","s","s">>, <<"J","o","b">>,
      <<"C","r","o","n","J","o","b">>,
      <<"S","t","a","t","e","f","u","l","S","e","t">>,
      <<"D","a","e","m","o","n","S","e","t">>,
      <<"S","e","r","v","i","c","e","A","c","c","o","u","n","t">>,
      <<"R","o","l","e">>, <<"R","o","l","e","B","i","n","d","i","n","g">>,
      <<"C","l","u","s","t","e","r","R","o","l","e">>,
      <<"C","l","u","s","t","e","r","R","o","l","e","B","i","n","d","i","n","g">>,
      <<"C","u","s","t","o","m","R","e","s","o","u","r","c","e",
        "D","e","f","i","n","i","t","i","o","n">> }

\* The plural of a well-known kind: all of it in lower case, then "es"
\* after a final s and "s" otherwise.
PluralOf(kind) ==
    [i \in 1..Len(kind) |-> ToLowerChar(kind[i])]
      \o (IF kind[Len(kind)] = "s" THEN <<"e","s">> ELSE <<"s">>)

\* C23: the resource name startResourceWatcher computes for a kind is, for a
\* well-known kind, its plural (pods for Pod, customresourcedefinitions for
\* CustomResourceDefinition), and for every other kind the kind with its
\* first character in lower case, the rest as it is, and an s after it
\* (widgets for Widget).
C23_ResourceNameFromKind ==
    \A l \in LoopIds :
        loop[l].pc # "unspawned"
            => LET kind == loop[l].resource.Kind
                   name == loop[l].gvr.Resource
               IN  /\ kind = <<"P","o","d">> => name = <<"p","o","d","s">>
                   /\ kind = <<"C","u","s","t","o","m","R","e","s","o","u",
                               "r","c","e","D","e","f","i","n","i","t","i",
                               "o","n">>
                        => name = <<"c","u","s","t","o","m","r","e","s","o",
                                    "u","r","c","e","d","e","f","i","n","i",
                                    "t","i","o","n","s">>
                   /\ kind = <<"W","i","d","g","e","t">>
                        => name = <<"w","i","d","g","e","t","s">>
                   /\ IF kind \in WellKnownKinds
                      THEN name = PluralOf(kind)
                      ELSE /\ Len(name) = Len(kind) + 1
                           /\ name[Len(name)] = "s"
                           /\ \A i \in 1..Len(kind) :
                                 name[i] = IF i = 1 THEN ToLowerChar(kind[1])
                                                    ELSE kind[i]

\* A loop was spawned for a kind that is not well known and has a capital
\* inside: only its first character is lowered.
C23_Witness ==
    \E l \in LoopIds :
        /\ loop[l].pc # "unspawned"
        /\ loop[l].resource.Kind = <<"M","y","K","i","n","d">>
        /\ loop[l].gvr.Resource = <<"m","y","K","i","n","d","s">>

\* C24: the group and version startResourceWatcher computes from an
\* APIVersion are: no group and v1 for "v1"; apps and v1 for "apps/v1"; for
\* a string with a "/" what is before and what is after its first "/"; and
\* for every other string no group and the string as the version.
C24_SplitAPIVersion ==
    \A l \in LoopIds :
        loop[l].pc # "unspawned"
            => LET a == loop[l].resource.APIVersion
                   g == loop[l].gvr.Group
                   v == loop[l].gvr.Version
               IN  /\ a = <<"v","1">> => (g = <<>> /\ v = <<"v","1">>)
                   /\ a = <<"a","p","p","s","/","v","1">>
                        => (g = <<"a","p","p","s">> /\ v = <<"v","1">>)
                   /\ IF \E i \in 1..Len(a) : a[i] = "/"
                      THEN /\ g \o <<"/">> \o v = a
                           /\ \A i \in 1..Len(g) : g[i] # "/"
                      ELSE g = <<>> /\ v = a

\* A loop was spawned for an APIVersion with two "/": the group ends at the
\* first.
C24_Witness ==
    \E l \in LoopIds :
        /\ loop[l].pc # "unspawned"
        /\ loop[l].resource.APIVersion = <<"a","/","b","/","c">>
        /\ loop[l].gvr.Group = <<"a">>
        /\ loop[l].gvr.Version = <<"b","/","c">>

\* C25: the sleeps of a loop are 2, 4, 6, 8, 10 seconds: the sleep after the
\* r-th consecutive transient failure of a Watch call is 2*r seconds, there
\* is a sleep only while r is at most 5, and none is longer than 10 seconds.
C25_BackoffIsLinearToTen ==
    \A l \in LoopIds :
        /\ Len(sleepLog[l]) <= MaxRetries
        /\ \A i \in 1..Len(sleepLog[l]) :
              /\ sleepLog[l][i] = BackoffFactor * i
              /\ sleepLog[l][i] <= BackoffFactor * MaxRetries

\* The open failures at the end of a log of Watch calls.
TrailingFailures(log) ==
    Cardinality({ i \in 1..Len(log) :
                    \A j \in i..Len(log) : log[j] # "ok" })

\* C26: the retry counter of a loop counts consecutive open failures only.
\* It is the number of failed Watch calls since the last successful one (one
\* less in a loop that returned on a failure, which it did not count), so it
\* is 0 after a successful Watch call; and a loop that gave up did so on a
\* run of more than MaxRetries failures with no successful call among them.
C26_RetriesCountConsecutiveFailures ==
    \A l \in LoopIds :
        /\ loop[l].retries =
              IF loop[l].why \in {"giving up", "not available"}
              THEN TrailingFailures(openLog[l]) - 1
              ELSE TrailingFailures(openLog[l])
        /\ (Len(openLog[l]) > 0 /\ openLog[l][Len(openLog[l])] = "ok")
              => loop[l].retries = 0
        /\ loop[l].why = "giving up"
              => TrailingFailures(openLog[l]) > MaxRetries

\* A Watch call succeeded after two that failed: the counter went from 2
\* to 0.
C26_Witness ==
    \E l \in LoopIds :
        /\ openLog[l] = <<TransientError, TransientError, "ok">>
        /\ sleepLog[l] = <<2, 4>>
        /\ loop[l].retries = 0
        /\ loop[l].sub = "open"

\* C27: a loop that is at the top of its retry loop when cancellation has
\* been signalled makes no Watch call in that iteration: its next step is
\* its return.  So a loop that comes to its first iteration under a
\* cancelled context never makes a Watch call and never calls the handler.
C27_CancelledAtTopNeverOpens ==
    /\ [][\A l \in LoopIds :
             (loop[l].pc = "top" /\ CtxDone(l[1]) /\ loop'[l] # loop[l])
                 => /\ loop'[l].pc = "done"
                    /\ loop'[l].why = "context canceled"
                    /\ openLog'[l] = openLog[l]
                    /\ delivered'[l] = delivered[l]]_vars
    /\ \A l \in LoopIds :
          []((loop[l].pc = "top" /\ CtxDone(l[1]) /\ openLog[l] = <<>>)
                => [](/\ openLog[l] = <<>>
                      /\ recv[l] = <<>>
                      /\ delivered[l] = <<>>
                      /\ loop[l].pc \in {"top", "done"}))

\* A loop returned on cancellation without a Watch call and without a call
\* of the handler.
C27_Witness ==
    \E l \in LoopIds :
        /\ loop[l].pc = "done"
        /\ loop[l].why = "context canceled"
        /\ CtxDone(l[1])
        /\ openLog[l] = <<>>
        /\ delivered[l] = <<>>

\* C28: the step in which a loop takes an Error event from its stream leaves
\* the loop's resourceVersions as they were, for every identity, the one the
\* payload of the event names among them.
C28_ErrorLeavesCacheAlone ==
    [][\A l \in LoopIds :
          (/\ Len(recv'[l]) = Len(recv[l]) + 1
           /\ recv'[l][Len(recv'[l])].type = Error)
              => /\ loop'[l].resourceVersions = loop[l].resourceVersions
                 /\ \A k \in Keys :
                       MapGet(loop'[l].resourceVersions, k)
                         = MapGet(loop[l].resourceVersions, k)]_vars

\* An Error event whose payload names an object with a remembered version,
\* and another version in it, was taken: the remembered version stands.
C28_Witness ==
    \E l \in LoopIds :
        /\ Len(recv[l]) = 2
        /\ recv[l][1].type = Added
        /\ recv[l][2].type = Error
        /\ recv[l][2].object = "Unstructured"
        /\ recv[l][2].name = recv[l][1].name
        /\ recv[l][2].namespace = recv[l][1].namespace
        /\ recv[l][2].resourceVersion # recv[l][1].resourceVersion
        /\ MapGet(loop[l].resourceVersions,
                  ResourceKey(recv[l][1].namespace, recv[l][1].name))
             = recv[l][1].resourceVersion
        /\ Len(delivered[l]) = 2

(***************************************************************************)
(* Two kinds watched explicitly, on a cluster whose Watch calls succeed or *)
(* fail either way, under a context that can be cancelled: loops leave by  *)
(* every return of startResourceWatcher.                                   *)
(***************************************************************************)
NextCount ==
    \/ NextIso
    \/ CancelParent
    \/ \E c \in Calls : FwdCtx(c)
    \/ \E l \in LoopIds : TopCancelled(l)
    \/ \E l \in LoopIds : SelectCancelled(l)

SpecCount ==
    InitWith(TwoKinds) /\ [][NextCount]_vars

\* The loops that have been spawned and have not returned.
LiveLoops ==
    { l \in LoopIds : loop[l].pc \notin {"unspawned", "done"} }

\* C29: in every state the WaitGroup activeWatchers counts the loops that
\* have been spawned and have not returned, whatever the return (on
\* cancellation, on giving up, on a missing resource type), and it is never
\* negative.
C29_CounterIsLiveLoops ==
    /\ activeWatchers = Cardinality(LiveLoops)
    /\ activeWatchers >= 0

\* Two loops were counted and both have returned, one on a missing resource
\* type and one on cancellation: the counter is back at zero.
C29_Witness ==
    /\ activeWatchers = 0
    /\ \E l1, l2 \in LoopIds :
          /\ loop[l1].pc = "done" /\ loop[l1].why = "not available"
          /\ loop[l2].pc = "done" /\ loop[l2].why = "context canceled"

(***************************************************************************)
(* A supervisor in watch-all mode and a client that calls Start, one call  *)
(* after the other, on a cluster whose discovery can fail.                 *)
(***************************************************************************)
WatchAllOptions ==
    [Namespace |-> <<>>, ResourceTypes |-> <<>>, WatchAll |-> TRUE]

NextDiscover ==
    \/ ClientIdle /\ CallStart
    \/ \E c \in Calls : StartRejected(c)
    \/ \E c \in Calls : StartAccepted(c)
    \/ \E c \in Calls : StartDiscover(c)
    \/ \E c \in Calls : StartSpawn(c)
    \/ \E c \in Calls : StartReturn(c)
    \/ \E c \in Calls : FwdEnter(c)

SpecDiscover ==
    InitWith(WatchAllOptions) /\ [][NextDiscover]_vars

\* Start call c has returned the error of a failed discovery.
DiscoveryFailed(c) ==
    /\ call[c].op = "Start"
    /\ call[c].pc = "returned"
    /\ call[c].ret = "error discovering resources"

\* C30: when a Start call has returned because discovery failed, the
\* supervisor is not running: as long as no other call has been made,
\* w.watching, which IsWatching returns, is false; and the next Start call
\* is not turned away as already running.
C30_FailedStartLeavesStopped ==
    \A c \in Calls :
        DiscoveryFailed(c)
            => /\ nCalls = c => ~watching
               /\ (c + 1 \in Calls /\ call[c + 1].pc = "returned")
                     => call[c + 1].ret # "watcher is already running"

(***************************************************************************)
(* One kind, and a client whose Start and Stop calls overlap: a call is    *)
(* made while earlier ones are still running.                              *)
(***************************************************************************)
NextOverlap ==
    \/ CallStart
    \/ ClientStop
    \/ \E c \in Calls : StartRejected(c)
    \/ \E c \in Calls : StartAccepted(c)
    \/ \E c \in Calls : StartExplicit(c)
    \/ \E c \in Calls : StartSpawn(c)
    \/ \E c \in Calls : StartReturn(c)
    \/ \E c \in Calls : FwdEnter(c)
    \/ \E c \in Calls : FwdStop(c)
    \/ \E c \in Calls : StopNoop(c)
    \/ \E c \in Calls : StopClose(c)
    \/ \E c \in Calls : StopClean(c)
    \/ \E c \in Calls : StopTimeout(c)
    \/ \E l \in LoopIds : TopCancelled(l)
    \/ \E l \in LoopIds : TopContinue(l)
    \/ \E l \in LoopIds : OpenSucceeded(l)
    \/ \E l \in LoopIds : SelectCancelled(l)
    \/ \E l \in LoopIds : \E e \in QuietEvents : Receive(l, e)
    \/ \E l \in LoopIds : HandlerReturn(l)

SpecOverlap ==
    InitWith(OneKind) /\ [][NextOverlap]_vars

\* Stop call d has returned on `case <-done`, having closed the stop
\* channel of the run that Start call c began.
StoppedCleanly(d, c) ==
    /\ call[d].op = "Stop"
    /\ call[d].pc = "returned"
    /\ call[d].ret = "clean"
    /\ call[d].closed = c

\* C31: once a Stop call has returned because the counted loops had all
\* returned, and not on its timeout, no loop of the run it ended calls the
\* handler: Stop and Start calls overlapping as they may.
C31_NoHandlerAfterCleanStop ==
    [][\A d, c \in Calls :
          StoppedCleanly(d, c)
              => \A l \in LoopIds :
                    l[1] = c => delivered'[l] = delivered[l]]_vars

\* C32: over Start, Stop, Start on one supervisor each Stop call cancels the
\* loops of the run it ends and no others.  The stop-forwarding task of run
\* c waits on the stop channel of run c, whenever it comes to wait, so the
\* Stop call that closes that channel cancels run c; and the context of run
\* c is cancelled only when the stop channel of run c has been closed.
C32_StopCancelsItsOwnRun ==
    \A c \in Calls :
        /\ fwd[c].pc \in {"waiting", "done"} => fwd[c].ch = c
        /\ ctxDone[c] => c \in closedCh

NextFlag ==
    \/ ClientIdle /\ CallStart
    \/ ClientIdle /\ ClientStop
    \/ CancelParent
    \/ \E c \in Calls : StartRejected(c)
    \/ \E c \in Calls : StartAccepted(c)
    \/ \E c \in Calls : StartExplicit(c)
    \/ \E c \in Calls : StartSpawn(c)
    \/ \E c \in Calls : StartReturn(c)
    \/ \E c \in Calls : FwdEnter(c)
    \/ \E c \in Calls : FwdStop(c)
    \/ \E c \in Calls : FwdCtx(c)
    \/ \E c \in Calls : StopNoop(c)
    \/ \E c \in Calls : StopClose(c)
    \/ \E c \in Calls : StopClean(c)
    \/ \E c \in Calls : StopTimeout(c)
    \/ \E l \in LoopIds : TopCancelled(l)
    \/ \E l \in LoopIds : TopContinue(l)
    \/ \E l \in LoopIds : OpenSucceeded(l)
    \/ \E l \in LoopIds : OpenTransient(l)
    \/ \E l \in LoopIds : OpenNotFound(l)
    \/ \E l \in LoopIds : BackoffDone(l)
    \/ \E l \in LoopIds : SelectCancelled(l)

SpecFlag ==
    InitWith(OneKind) /\ [][NextFlag]_vars

\* Start call c returned nil, no Stop call has been made since it was
\* called, and every loop it spawned has returned.
RunEndedOnItsOwn(c) ==
    /\ call[c].op = "Start"
    /\ call[c].pc = "returned"
    /\ call[c].ret = "nil"
    /\ ~call[c].stopSince
    /\ \A l \in LoopIds : l[1] = c => loop[l].pc \in {"unspawned", "done"}
    /\ \E l \in LoopIds : l[1] = c /\ loop[l].pc = "done"

\* C34: w.watching changes only in a Start call, from false to true, and in
\* a Stop call, from true to false.  When the loops of a run have all
\* returned on their own (giving up, missing resource type, cancellation of
\* the caller's context) and Stop has not been called, w.watching, which
\* IsWatching returns, is still true.
C34_FlagChangesOnlyInStartAndStop ==
    /\ [][watching' # watching
             => \E c \in Calls :
                   \/ /\ ~watching /\ watching'
                      /\ call[c].op = "Start"
                      /\ call[c].pc = "check" /\ call'[c].pc = "resolve"
                   \/ /\ watching /\ ~watching'
                      /\ call[c].op = "Stop"
                      /\ call[c].pc = "lock" /\ call'[c].pc = "wait"]_vars
    /\ [](\A c \in Calls : RunEndedOnItsOwn(c) => watching)

\* The loop of a run gave up, no Stop call was made, and the watcher still
\* says it is watching.
C34_Witness ==
    \E c \in Calls :
        /\ RunEndedOnItsOwn(c)
        /\ \E l \in LoopIds : l[1] = c /\ loop[l].why = "giving up"
        /\ watching

\* C35: however Start and Stop calls overlap, no stop channel is closed
\* twice.  A Stop call closes w.stopCh only when w.watching is true, and
\* then the channel is one that has not been closed; a Stop call that finds
\* w.watching false closes nothing; and while w.watching is true w.stopCh is
\* a channel that has not been closed, a new one having been made when the
\* flag went from false to true.
C35_StopChannelClosedOnce ==
    /\ [][\A c \in Calls :
             (call[c].op = "Stop" /\ call[c].pc = "lock"
                /\ call'[c].pc # "lock")
                 => IF watching
                    THEN /\ stopCh \notin closedCh
                         /\ closedCh' = closedCh \cup {stopCh}
                    ELSE closedCh' = closedCh]_vars
    /\ [][closedCh' # closedCh
             => \E c \in Calls : call[c].op = "Stop" /\ call[c].pc = "lock"
                                   /\ call'[c].pc = "wait"]_vars
    /\ [][(~watching /\ watching') => stopCh' \notin closedCh \cup {stopCh}]_vars
    /\ [](watching => stopCh \notin closedCh)

\* Two Stop calls followed one Start call: one closed the channel of the
\* run, the other found the watcher stopped and closed nothing.
C35_Witness ==
    \E c, d \in Calls :
        /\ call[c].op = "Stop" /\ call[d].op = "Stop"
        /\ call[c].closed = 1
        /\ call[d].pc = "returned" /\ call[d].ret = "not watching"
        /\ closedCh = {1}
        /\ c < d

\* C36: in watch-all mode no two loops of one Start call subscribe to the
\* same group, version, resource name and namespace scope; two advertised
\* resources of one group-version and kind with different names among the
\* cases.
C36_NoTwoLoopsOnOneTarget ==
    \A c \in Calls :
        options.WatchAll
            => \A i, j \in Slots :
                  (/\ i # j
                   /\ loop[<<c, i>>].pc # "unspawned"
                   /\ loop[<<c, j>>].pc # "unspawned")
                      => loop[<<c, i>>].gvr # loop[<<c, j>>].gvr

\* C37: the step in which a loop takes a raw event whose payload is not an
\* Unstructured object (a Status, say) calls no handler, leaves the loop's
\* resourceVersions as they were, and leaves the loop at its select on the
\* same open stream, ready for the next event.
C37_OtherPayloadsAreDropped ==
    [][\A l \in LoopIds :
          (/\ Len(recv'[l]) = Len(recv[l]) + 1
           /\ recv'[l][Len(recv'[l])].object # "Unstructured")
              => /\ delivered'[l] = delivered[l]
                 /\ loop'[l].resourceVersions = loop[l].resourceVersions
                 /\ loop'[l].pc = "select"
                 /\ loop'[l].sub = "open"
                 /\ openLog'[l] = openLog[l]]_vars

\* A Status event was dropped and the event after it was handed to the
\* handler.
C37_Witness ==
    \E l \in LoopIds :
        /\ Len(recv[l]) = 2
        /\ recv[l][1].object = "Status"
        /\ recv[l][2].object = "Unstructured"
        /\ Len(delivered[l]) = 1
        /\ delivered[l][1].Name = recv[l][2].name
        /\ Len(openLog[l]) = 1

\* C38: the handler calls of different loops are not serialized.  Whenever
\* one loop is inside a handler call, another loop that is at its select on
\* an open stream can take its next event and call the handler.
C38_HandlersNotSerialized ==
    \A l1, l2 \in LoopIds :
        (/\ l1 # l2
         /\ loop[l1].pc = "handler"
         /\ loop[l2].pc = "select"
         /\ loop[l2].sub = "open"
         /\ Len(recv[l2]) < MaxEvents)
            => \A e \in QuietEvents : ENABLED Receive(l2, e)

\* Two loops are inside a handler call at the same time, the second having
\* entered while the first was inside.
C38_Witness ==
    \E l1, l2 \in LoopIds :
        /\ l1 # l2
        /\ loop[l1].pc = "handler"
        /\ loop[l2].pc = "handler"
        /\ loop[l1].resource # loop[l2].resource

(***************************************************************************)
(* The TUI: one kind, one loop on an open stream that carries Added,       *)
(* Modified and Deleted events, and the event handler that keeps the store.*)
(***************************************************************************)
ObjectEvents ==
    { Unstructured(t, ns, n, rv) :
        t \in {Added, Modified, Deleted}, ns \in Namespaces, n \in Names,
        rv \in Tokens }

NextTui ==
    \/ StartOnce
    \/ \E c \in Calls : StartAccepted(c)
    \/ \E c \in Calls : StartExplicit(c)
    \/ \E c \in Calls : StartSpawn(c)
    \/ \E c \in Calls : StartReturn(c)
    \/ \E c \in Calls : FwdEnter(c)
    \/ \E l \in LoopIds : TopContinue(l)
    \/ \E l \in LoopIds : OpenSucceeded(l)
    \/ \E l \in LoopIds : \E e \in ObjectEvents : Receive(l, e)
    \/ \E l \in LoopIds : eventHandler(l)

SpecTui ==
    InitWith(OneKind) /\ [][NextTui]_vars

\* The rows of the store for the object (namespace, name) of loop l's kind.
RowsFor(l, namespace, name) ==
    RowsOf(StoreKey(loop[l].resource.Kind, loop[l].resource.APIVersion,
                    namespace, name))

\* C39: with the TUI handler and a store empty at the start, whenever the
\* loop has taken Added, Modified and Deleted events and is in no handler
\* call, the store has a row for an object of the loop's kind exactly when
\* the loop's resourceVersions have an entry for it, and the row's resource
\* version is the remembered one; the store has no other rows.
C39_StoreFollowsCache ==
    \A l \in LoopIds :
        (loop[l].pc \notin {"unspawned", "handler"})
            => /\ \A ns \in Namespaces, n \in Names :
                     /\ RowsFor(l, ns, n) # {}
                          <=> loop[l].resourceVersions[ResourceKey(ns, n)]
                                 # NoEntry
                     /\ \A row \in RowsFor(l, ns, n) :
                           row.ResourceVersion
                             = loop[l].resourceVersions[ResourceKey(ns, n)]
               /\ store.rows
                    = UNION { RowsFor(l, ns, n) :
                                ns \in Namespaces, n \in Names }

\* An object was added with one version and modified to another, both
\* handler calls have returned: the store's row and the loop's entry hold
\* the second version.
C39_Witness ==
    \E l \in LoopIds :
        /\ loop[l].pc = "select"
        /\ Len(recv[l]) = 2
        /\ recv[l][1].type = Added /\ recv[l][1].resourceVersion = "1"
        /\ recv[l][2].type = Modified /\ recv[l][2].resourceVersion = "2"
        /\ recv[l][1].namespace = recv[l][2].namespace
        /\ Len(store.log) = 2
        /\ \E row \in store.rows : row.ResourceVersion = "2"
        /\ Cardinality(store.rows) = 1

=============================================================================
